---- MODULE Spec2Model ----
(***************************************************************************)
(* Model of the rose-lib binary codecs: the primitive little-endian        *)
(* reader/writer (io/reader.rs, io/writer.rs), the ZMS model codec         *)
(* (files/zms.rs) and the VFS index codec (vfs.rs).                        *)
(*                                                                         *)
(* Streams are sequences of bytes (0..255) with a cursor position, as in   *)
(* std::io::Cursor<Vec<u8>>, the stream the repository's tests use.        *)
(* Strings are the sequences of their UTF-8 bytes.  An f32 is its bit      *)
(* pattern, kept as the tuple of its four bytes from the most significant  *)
(* to the least significant one.  i16 and i32 are integers in range.       *)
(***************************************************************************)
EXTENDS Integers, Sequences, FiniteSets, TLC

VARIABLES pc, reader, cursor, orig_zms, new_zms, zres, ztrace,
          orig_idx, new_idx, ires, itrace, prim,
          orig_lit, new_lit, lres

zvars == <<orig_zms, new_zms, zres, ztrace>>

ivars == <<orig_idx, new_idx, ires, itrace>>

lvars == <<orig_lit, new_lit, lres>>

vars == <<pc, reader, cursor, zvars, ivars, prim, lvars>>

\* prim holds a single call of a primitive: the operation, its argument and
\* its result
PrimNew == [op |-> "none", arg |-> 0, ok |-> TRUE, val |-> <<>>, input |-> <<>>]

(***************************************************************************)
(* Bounds of the enumerated inputs.                                        *)
(***************************************************************************)
MaxBones == 1
MaxVerts == 2
MaxTail == 1
MaxArchives == 2
MaxFiles == 1
MaxStream == 5
MaxObjects == 2
MaxParts == 1

(***************************************************************************)
(* Sequence helpers.                                                       *)
(***************************************************************************)
Min(a, b) == IF a < b THEN a ELSE b
Max(a, b) == IF a > b THEN a ELSE b

RECURSIVE Flatten(_)
Flatten(ss) == IF ss = <<>> THEN <<>> ELSE Head(ss) \o Flatten(Tail(ss))

Reverse(s) == [i \in 1..Len(s) |-> s[Len(s) + 1 - i]]

Zeros(n) == [i \in 1..n |-> 0]

(***************************************************************************)
(* byteorder: little-endian integers.                                      *)
(***************************************************************************)
\* bytes -> u16
U16OfBytes(b) == b[1] + 256 * b[2]

\* bytes -> u32; a value of 2^31 or more is kept as 2^31 - 1, which as a
\* length is past the end of every stream all the same
U32OfBytes(b) ==
    IF b[4] >= 128 THEN 2147483647
    ELSE b[1] + 256 * b[2] + 65536 * b[3] + 16777216 * b[4]

\* bytes -> i16 (two's complement)
I16OfBytes(b) == IF b[2] >= 128 THEN U16OfBytes(b) - 65536 ELSE U16OfBytes(b)

\* bytes -> i32 (two's complement)
I32OfBytes(b) ==
    b[1] + 256 * b[2] + 65536 * b[3]
      + 16777216 * (IF b[4] >= 128 THEN b[4] - 256 ELSE b[4])

\* bytes -> f32 bit pattern
F32OfBytes(b) == Reverse(b)

\* u16 / i16 -> bytes
BytesOf16(n) == << n % 256, (n \div 256) % 256 >>

\* i32 -> bytes
BytesOf32(n) ==
    << n % 256, (n \div 256) % 256, (n \div 65536) % 256, (n \div 16777216) % 256 >>

\* f32 bit pattern -> bytes
BytesOfF32(f) == Reverse(f)

\* `x as i16` of a usize
AsI16(n) == ((n + 32768) % 65536) - 32768

\* `x as u16` of a usize
AsU16(n) == n % 65536

\* `x as i32` of a usize / u64 that the model can hold
AsI32(n) == n

(***************************************************************************)
(* std::io::Cursor: reading, writing, seeking.                             *)
(***************************************************************************)
Cursor(buf, pos) == [buf |-> buf, pos |-> pos]

\* Read::read_exact: n bytes or UnexpectedEof
read_exact(rd, n) ==
    IF n <= Len(rd.buf) - rd.pos
    THEN [ok |-> TRUE, val |-> SubSeq(rd.buf, rd.pos + 1, rd.pos + n),
          rd |-> [rd EXCEPT !.pos = rd.pos + n]]
    ELSE [ok |-> FALSE, val |-> <<>>,
          rd |-> [rd EXCEPT !.pos = Max(rd.pos, Len(rd.buf))]]

\* Write::write_all on Cursor<Vec<u8>>: overwrite in place, zero-fill a gap, grow
write_all(w, bytes) ==
    LET padded == IF w.pos > Len(w.buf) THEN w.buf \o Zeros(w.pos - Len(w.buf)) ELSE w.buf
        before == SubSeq(padded, 1, w.pos)
        after  == SubSeq(padded, w.pos + Len(bytes) + 1, Len(padded))
    IN  [w EXCEPT !.buf = before \o bytes \o after, !.pos = w.pos + Len(bytes)]

(***************************************************************************)
(* String::from_utf8_lossy, for the byte values the inputs use: ASCII is   *)
(* kept, the encoded replacement character EF BF BD is kept, any other     *)
(* byte >= 128 is replaced by EF BF BD.                                    *)
(***************************************************************************)
Replacement == <<239, 191, 189>>

RECURSIVE from_utf8_lossy(_)
from_utf8_lossy(b) ==
    IF b = <<>> THEN <<>>
    ELSE IF b[1] < 128 THEN <<b[1]>> \o from_utf8_lossy(Tail(b))
    ELSE IF Len(b) >= 3 /\ SubSeq(b, 1, 3) = Replacement
         THEN Replacement \o from_utf8_lossy(SubSeq(b, 4, Len(b)))
    ELSE Replacement \o from_utf8_lossy(Tail(b))

(***************************************************************************)
(* ReadRoseExt (io/reader.rs).  Every read returns                         *)
(* [ok, val, rd]: ok = FALSE is the Err of the short read.                 *)
(***************************************************************************)
MapRead(r, f(_)) == [ok |-> r.ok, val |-> IF r.ok THEN f(r.val) ELSE 0, rd |-> r.rd]

Byte0(b) == b[1]

read_u8(rd) == MapRead(read_exact(rd, 1), Byte0)

read_u16(rd) == MapRead(read_exact(rd, 2), U16OfBytes)

read_u32(rd) == MapRead(read_exact(rd, 4), U32OfBytes)

read_i16(rd) == MapRead(read_exact(rd, 2), I16OfBytes)

read_i32(rd) == MapRead(read_exact(rd, 4), I32OfBytes)

read_f32(rd) == MapRead(read_exact(rd, 4), F32OfBytes)

read_bool(rd) ==
    LET b == read_u8(rd)
    IN  [ok |-> b.ok, val |-> (b.ok /\ b.val # 0), rd |-> b.rd]

\* index of the first zero byte of b, 0 when there is none
FirstZero(b) ==
    IF \E i \in 1..Len(b) : b[i] = 0
    THEN CHOOSE i \in 1..Len(b) : b[i] = 0 /\ \A j \in 1..(i - 1) : b[j] # 0
    ELSE 0

\* BufRead::read_until(0x00), buffer.pop(), from_utf8_lossy
read_cstring(rd) ==
    LET rest   == SubSeq(rd.buf, rd.pos + 1, Len(rd.buf))
        z      == FirstZero(rest)
        buffer == IF z > 0 THEN SubSeq(rest, 1, z) ELSE rest
        popped == SubSeq(buffer, 1, Len(buffer) - 1)
    IN  [ok |-> TRUE, val |-> from_utf8_lossy(popped),
         rd |-> [rd EXCEPT !.pos = Max(rd.pos, Min(rd.pos, Len(rd.buf)) + Len(buffer))]]

\* self.take(n).read_to_end, drop one trailing zero byte, from_utf8_lossy
read_string(rd, n) ==
    LET avail  == IF rd.pos < Len(rd.buf) THEN Len(rd.buf) - rd.pos ELSE 0
        k      == Min(n, avail)
        buffer == SubSeq(rd.buf, rd.pos + 1, rd.pos + k)
        kept   == IF k > 0 /\ buffer[k] = 0 THEN SubSeq(buffer, 1, k - 1) ELSE buffer
    IN  [ok |-> TRUE, val |-> from_utf8_lossy(kept), rd |-> [rd EXCEPT !.pos = rd.pos + k]]

read_string_u8(rd) ==
    LET length == read_u8(rd)
    IN  IF ~length.ok THEN [ok |-> FALSE, val |-> <<>>, rd |-> length.rd]
        ELSE read_string(length.rd, length.val)

read_string_u32(rd) ==
    LET length == read_u32(rd)
    IN  IF ~length.ok THEN [ok |-> FALSE, val |-> <<>>, rd |-> length.rd]
        ELSE read_string(length.rd, length.val)

read_string_u16(rd) ==
    LET length == read_u16(rd)
    IN  IF ~length.ok THEN [ok |-> FALSE, val |-> <<>>, rd |-> length.rd]
        ELSE read_string(length.rd, length.val)

\* the component reads of a vector or colour: n scalars read one after the
\* other, each followed by `?`, so that the first short read ends the sequence
ReadScalar(rd, kind) == IF kind = "f32" THEN read_f32(rd) ELSE read_i16(rd)

RECURSIVE ReadScalars(_, _, _)
ReadMore(r, kind, n) ==
    IF ~r.ok THEN [ok |-> FALSE, val |-> <<>>, rd |-> r.rd]
    ELSE [ReadScalars(r.rd, kind, n - 1) EXCEPT !.val = <<r.val>> \o @]

ReadScalars(rd, kind, n) ==
    IF n = 0 THEN [ok |-> TRUE, val |-> <<>>, rd |-> rd]
    ELSE ReadMore(ReadScalar(rd, kind), kind, n)

\* the struct literals the vector readers return
AsColor4(c) ==
    [c EXCEPT !.val = IF c.ok THEN [r |-> @[1], g |-> @[2], b |-> @[3], a |-> @[4]] ELSE 0]

AsVector2(c) == [c EXCEPT !.val = IF c.ok THEN [x |-> @[1], y |-> @[2]] ELSE 0]

AsVector3(c) == [c EXCEPT !.val = IF c.ok THEN [x |-> @[1], y |-> @[2], z |-> @[3]] ELSE 0]

AsVector4(c) ==
    [c EXCEPT !.val = IF c.ok THEN [w |-> @[1], x |-> @[2], y |-> @[3], z |-> @[4]] ELSE 0]

read_color4(rd) == AsColor4(ReadScalars(rd, "f32", 4))

read_vector2_f32(rd) == AsVector2(ReadScalars(rd, "f32", 2))

read_vector3_f32(rd) == AsVector3(ReadScalars(rd, "f32", 3))

read_vector3_i16(rd) == AsVector3(ReadScalars(rd, "i16", 3))

read_vector4_f32(rd) == AsVector4(ReadScalars(rd, "f32", 4))

read_vector4_i16(rd) == AsVector4(ReadScalars(rd, "i16", 4))

(***************************************************************************)
(* WriteRoseExt (io/writer.rs) on a Cursor<Vec<u8>>, whose writes cannot   *)
(* fail.                                                                   *)
(***************************************************************************)
write_u8(w, n) == write_all(w, <<n>>)

write_u16(w, n) == write_all(w, BytesOf16(n))

write_i16(w, n) == write_all(w, BytesOf16(n))

write_i32(w, n) == write_all(w, BytesOf32(n))

write_f32(w, f) == write_all(w, BytesOfF32(f))

write_bool(w, b) == write_u8(w, IF b = TRUE THEN 1 ELSE 0)

write_cstring(w, string) == write_u8(write_all(w, string), 0)

write_string_u16(w, string) == write_all(write_u16(w, AsU16(Len(string))), string)

\* `string.len() as u8`
AsU8(n) == n % 256

write_string_u8(w, string) == write_all(write_u8(w, AsU8(Len(string))), string)

write_u32(w, n) == write_all(w, BytesOf32(n))

\* `string.len() as u32`, for the lengths below 2^31
write_string_u32(w, string) == write_all(write_u32(w, Len(string)), string)

write_color4(w, color) ==
    write_f32(write_f32(write_f32(write_f32(w, color.r), color.g), color.b), color.a)

write_vector2_f32(w, v) == write_f32(write_f32(w, v.x), v.y)

write_vector3_f32(w, v) == write_f32(write_f32(write_f32(w, v.x), v.y), v.z)

write_vector3_i16(w, v) == write_i16(write_i16(write_i16(w, v.x), v.y), v.z)

\* the four components with w last
write_vector4_f32_xyzw(w, v) ==
    write_f32(write_f32(write_f32(write_f32(w, v.x), v.y), v.z), v.w)

write_vector4_f32(w, v) ==
    write_f32(write_f32(write_f32(write_f32(w, v.w), v.x), v.y), v.z)

write_vector4_i16(w, v) ==
    write_i16(write_i16(write_i16(write_i16(w, v.w), v.x), v.y), v.z)

(***************************************************************************)
(* utils: Vector2/3/4, Color4 constructors (all components zero).          *)
(***************************************************************************)
F32Zero == <<0, 0, 0, 0>>

Vector2F32New == [x |-> F32Zero, y |-> F32Zero]

Vector3F32New == [x |-> F32Zero, y |-> F32Zero, z |-> F32Zero]

Vector4F32New == [w |-> F32Zero, x |-> F32Zero, y |-> F32Zero, z |-> F32Zero]

Vector4I16New == [w |-> 0, x |-> 0, y |-> 0, z |-> 0]

Color4New == [r |-> F32Zero, g |-> F32Zero, b |-> F32Zero, a |-> F32Zero]

(***************************************************************************)
(* files/zms.rs: the model record.                                         *)
(***************************************************************************)
ZMS0007 == <<90, 77, 83, 48, 48, 48, 55>>

ZMS0008 == <<90, 77, 83, 48, 48, 48, 56>>

ModelVertexNew ==
    [position |-> Vector3F32New, normal |-> Vector3F32New, color |-> Color4New,
     bone_weights |-> Vector4F32New, bone_indices |-> Vector4I16New,
     tangent |-> Vector3F32New, uv1 |-> Vector2F32New, uv2 |-> Vector2F32New,
     uv3 |-> Vector2F32New, uv4 |-> Vector2F32New]

ModelFileNew ==
    [identifier |-> <<>>, format |-> -1,
     bounding_box |-> [min |-> Vector3F32New, max |-> Vector3F32New],
     bones |-> <<>>, vertices |-> <<>>, indices |-> <<>>, materials |-> <<>>,
     strips |-> <<>>, pool |-> 0]

\* enum VertFormat: the bit number of each discriminant 1 << k
VertFormat ==
    [Position |-> 1, Normal |-> 2, Color |-> 3, BoneWeight |-> 4, BoneIndex |-> 5,
     Tangent |-> 6, UV1 |-> 7, UV2 |-> 8, UV3 |-> 9, UV4 |-> 10]

Pow2(k) == 2 ^ k

\* bit k (0..30) of the two's complement i32 n
BitOf(n, k) == (n \div Pow2(k)) % 2

\* mask & n for an i32 n and a mask in 0..2^31-1, bit by bit from the lowest
RECURSIVE BitAnd(_, _)
BitAnd(mask, n) ==
    IF mask = 0 THEN 0
    ELSE (mask % 2) * (n % 2) + 2 * BitAnd(mask \div 2, n \div 2)

positions_enabled(self) == BitAnd(Pow2(VertFormat.Position), self.format) # 0

normals_enabled(self) == BitAnd(Pow2(VertFormat.Normal), self.format) # 0

colors_enabled(self) == BitAnd(Pow2(VertFormat.Color), self.format) # 0

bones_enabled_either(self) ==
    (BitAnd(Pow2(VertFormat.BoneWeight), self.format) # 0)
      \/ (BitAnd(Pow2(VertFormat.BoneIndex), self.format) # 0)

bones_enabled(self) ==
    (BitAnd(Pow2(VertFormat.BoneWeight), self.format) # 0)
      /\ (BitAnd(Pow2(VertFormat.BoneIndex), self.format) # 0)

tangents_enabled(self) == BitAnd(Pow2(VertFormat.Tangent), self.format) # 0

uv1_enabled(self) == BitAnd(Pow2(VertFormat.UV1), self.format) # 0

uv2_enabled(self) == BitAnd(Pow2(VertFormat.UV2), self.format) # 0

uv3_enabled(self) == BitAnd(Pow2(VertFormat.UV3), self.format) # 0

uv4_enabled(self) == BitAnd(Pow2(VertFormat.UV4), self.format) # 0

\* the attribute columns in the order read and write visit them
Columns == <<"position", "normal", "color", "bone", "tangent", "uv1", "uv2", "uv3", "uv4">>

ColumnEnabled(self, col) ==
    CASE col = "position" -> positions_enabled(self)
      [] col = "normal"   -> normals_enabled(self)
      [] col = "color"    -> colors_enabled(self)
      [] col = "bone"     -> bones_enabled(self)
      [] col = "tangent"  -> tangents_enabled(self)
      [] col = "uv1"      -> uv1_enabled(self)
      [] col = "uv2"      -> uv2_enabled(self)
      [] col = "uv3"      -> uv3_enabled(self)
      [] col = "uv4"      -> uv4_enabled(self)

(***************************************************************************)
(* ModelFile::read.  The decode state s is [rd, err, self, tr]: the        *)
(* reader, the outcome so far ("ok", "io" for a stream error, "version"    *)
(* for the unsupported version error, "panic" for an index out of bounds), *)
(* the record being filled, and a log tr of stream positions.  A step      *)
(* does nothing once err is set, which is the `?` early return.            *)
(***************************************************************************)
ReadTraceNew ==
    [id_end |-> -1, version |-> 0, cols_start |-> -1,
     declared |-> [bones |-> 0, vertices |-> 0, indices |-> 0, materials |-> 0,
                   strips |-> 0],
     consumed |-> [c \in {Columns[i] : i \in 1..Len(Columns)} |-> 0],
     strips_end |-> -1]

DecodeStart(self, rd) == [rd |-> rd, err |-> "ok", self |-> self, tr |-> ReadTraceNew]

IoFail(s, rd) == [s EXCEPT !.rd = rd, !.err = "io"]

\* lines 163-169: r is the result of read_cstring
MatchIdentifier(s, r) ==
    LET s1 == [s EXCEPT !.rd = r.rd, !.self.identifier = r.val, !.tr.id_end = r.rd.pos]
    IN  IF r.val = ZMS0007 THEN [s1 EXCEPT !.tr.version = 7]
        ELSE IF r.val = ZMS0008 THEN [s1 EXCEPT !.tr.version = 8]
        ELSE [s1 EXCEPT !.err = "version"]

ReadIdentifierAfterFormat(s) ==
    LET r == read_cstring(s.rd)
        f == read_i32(r.rd)
        s1 == [s EXCEPT !.rd = f.rd, !.self.identifier = r.val, !.tr.id_end = r.rd.pos]
    IN  IF ~f.ok THEN IoFail(s1, f.rd)
        ELSE IF r.val = ZMS0007 THEN [s1 EXCEPT !.rd = r.rd, !.tr.version = 7]
        ELSE IF r.val = ZMS0008 THEN [s1 EXCEPT !.rd = r.rd, !.tr.version = 8]
        ELSE [s1 EXCEPT !.err = "version"]

ReadIdentifier(s) == MatchIdentifier(s, read_cstring(s.rd))

\* line 171
ReadFormat(s) ==
    IF s.err # "ok" THEN s
    ELSE LET r == read_i32(s.rd)
         IN  IF ~r.ok THEN IoFail(s, r.rd) ELSE [s EXCEPT !.rd = r.rd, !.self.format = r.val]

\* lines 172-173: `self.bounding_box.<corner> = reader.read_vector3_f32()?`
SetCorner(s, corner, r) ==
    IF ~r.ok THEN IoFail(s, r.rd)
    ELSE [s EXCEPT !.rd = r.rd, !.self.bounding_box[corner] = r.val]

ReadCorner(s, corner) ==
    IF s.err # "ok" THEN s ELSE SetCorner(s, corner, read_vector3_f32(s.rd))

\* lines 171-173
ReadHeader(s) == ReadCorner(ReadCorner(ReadFormat(s), "min"), "max")

\* `for _ in 0..n { self.<field>.push(reader.read_i16()?) }`
RECURSIVE PushI16s(_, _, _)
PushI16s(s, field, n) ==
    IF s.err # "ok" \/ n <= 0 THEN s
    ELSE LET r == read_i16(s.rd)
         IN  IF ~r.ok THEN IoFail(s, r.rd)
             ELSE PushI16s([s EXCEPT !.rd = r.rd, !.self[field] = Append(@, r.val)],
                           field, n - 1)

ReadI16ListClamped(s, field) ==
    IF s.err # "ok" THEN s
    ELSE LET c == read_i16(s.rd)
         IN  IF ~c.ok THEN IoFail(s, c.rd)
             ELSE PushI16s([s EXCEPT !.rd = c.rd, !.tr.declared[field] = c.val],
                           field, Min(c.val, (Len(c.rd.buf) - c.rd.pos) \div 2))

\* a signed 16-bit count followed by that many i16 pushed onto self.<field>
ReadI16List(s, field) ==
    IF s.err # "ok" THEN s
    ELSE LET c == read_i16(s.rd)
         IN  IF ~c.ok THEN IoFail(s, c.rd)
             ELSE PushI16s([s EXCEPT !.rd = c.rd, !.tr.declared[field] = c.val],
                           field, c.val)

\* `for _ in 0..vert_count { self.vertices.push(ModelVertex::new()) }`
\* one vertex record more than the count
PushVerticesExtra(vertices, n) ==
    vertices \o [i \in 1..(IF n < 0 THEN 1 ELSE n + 1) |-> ModelVertexNew]

RECURSIVE PushVertices(_, _)
PushVertices(vertices, n) ==
    IF n <= 0 THEN vertices ELSE PushVertices(Append(vertices, ModelVertexNew), n - 1)

\* lines 180-183
ReadVertCount(s) ==
    IF s.err # "ok" THEN s
    ELSE LET c == read_i16(s.rd)
         IN  IF ~c.ok THEN IoFail(s, c.rd)
             ELSE [s EXCEPT !.rd = c.rd, !.tr.declared.vertices = c.val,
                            !.tr.cols_start = c.rd.pos,
                            !.self.vertices = PushVertices(@, c.val)]

\* `n as usize` as a loop bound: a negative i16 becomes a bound no loop reaches
AsUsize(n) == IF n < 0 THEN 2147483647 ELSE n

\* `self.vertices[i].<field> = <read>?`: the read is evaluated first, then
\* the indexing, which panics out of bounds
AssignVertex(s, i, field, r) ==
    IF ~r.ok THEN IoFail(s, r.rd)
    ELSE IF i + 1 > Len(s.self.vertices) THEN [s EXCEPT !.rd = r.rd, !.err = "panic"]
    ELSE [s EXCEPT !.rd = r.rd, !.self.vertices[i + 1][field] = r.val]

\* lines 206-207: the second assignment of the bone column
ReadBoneIndices(s, i) ==
    IF s.err # "ok" THEN s
    ELSE AssignVertex(s, i, "bone_indices", read_vector4_i16(s.rd))

ReadAttribute(s, col, i) ==
    CASE col = "position" -> AssignVertex(s, i, "position", read_vector3_f32(s.rd))
      [] col = "normal"   -> AssignVertex(s, i, "normal", read_vector3_f32(s.rd))
      [] col = "color"    -> AssignVertex(s, i, "color", read_color4(s.rd))
      [] col = "bone"     ->
           ReadBoneIndices(AssignVertex(s, i, "bone_weights", read_vector4_f32(s.rd)), i)
      [] col = "tangent"  -> AssignVertex(s, i, "tangent", read_vector3_f32(s.rd))
      [] col = "uv1"      -> AssignVertex(s, i, "uv1", read_vector2_f32(s.rd))
      [] col = "uv2"      -> AssignVertex(s, i, "uv2", read_vector2_f32(s.rd))
      [] col = "uv3"      -> AssignVertex(s, i, "uv3", read_vector2_f32(s.rd))
      [] col = "uv4"      -> AssignVertex(s, i, "uv4", read_vector2_f32(s.rd))

\* `for i in 0..vert_count as usize { ... }` of one column
RECURSIVE ReadColumnFrom(_, _, _, _)
ReadColumnFrom(s, col, i, n) ==
    IF s.err # "ok" \/ i >= n THEN s
    ELSE ReadColumnFrom(ReadAttribute(s, col, i), col, i + 1, n)

\* the log entry of a column: the bytes read for it, from start to where s is
LogConsumed(s, col, start) == [s EXCEPT !.tr.consumed[col] = s.rd.pos - start]

\* `if self.<col>_enabled() { for ... }`
ReadColumn(s, col) ==
    IF s.err # "ok" \/ ~ColumnEnabled(s.self, col) THEN s
    ELSE LogConsumed(ReadColumnFrom(s, col, 0, AsUsize(s.tr.declared.vertices)),
                     col, s.rd.pos)

\* lines 185-238
RECURSIVE ReadColumnsFrom(_, _)
ReadColumnsFrom(s, k) ==
    IF k > Len(Columns) THEN s ELSE ReadColumnsFrom(ReadColumn(s, Columns[k]), k + 1)

ReadColumns(s) == ReadColumnsFrom(s, 1)

RECURSIVE PushIndices(_, _)
PushIndices(s, n) ==
    IF s.err # "ok" \/ n <= 0 THEN s
    ELSE LET r == read_vector3_i16(s.rd)
         IN  IF ~r.ok THEN IoFail(s, r.rd)
             ELSE PushIndices([s EXCEPT !.rd = r.rd, !.self.indices = Append(@, r.val)],
                              n - 1)

\* lines 240-243
ReadIndices(s) ==
    IF s.err # "ok" THEN s
    ELSE LET c == read_i16(s.rd)
         IN  IF ~c.ok THEN IoFail(s, c.rd)
             ELSE PushIndices([s EXCEPT !.rd = c.rd, !.tr.declared.indices = c.val],
                              c.val)

MarkStripsEnd(s) == IF s.err # "ok" THEN s ELSE [s EXCEPT !.tr.strips_end = s.rd.pos]

PoolVersionSeven(version) == version >= 7

PoolVersion(version) == version >= 8

\* lines 255-257
ReadPool(s) ==
    IF s.err # "ok" \/ ~PoolVersion(s.tr.version) THEN s
    ELSE LET r == read_i16(s.rd)
         IN  IF ~r.ok THEN IoFail(s, r.rd)
             ELSE [s EXCEPT !.rd = r.rd, !.self.pool = r.val]

ZmsRead(self, rd) ==
    ReadPool(MarkStripsEnd(
      ReadI16List(ReadI16List(ReadIndices(ReadColumns(ReadVertCount(
        ReadI16List(ReadHeader(ReadIdentifier(DecodeStart(self, rd))), "bones")))),
        "materials"), "strips")))

(***************************************************************************)
(* ModelFile::write, on a Cursor<Vec<u8>>.  The result is                  *)
(* [w, err, self]: the writer, the outcome and the record afterwards.      *)
(***************************************************************************)
\* `writer.write_i16(self.<list>.len() as i16)?`: lines 283, 288, 345, 350, 355
WriteLen(w, n) == write_i16(w, AsI16(n))

RECURSIVE WriteI16s(_, _)
WriteI16s(w, list) ==
    IF list = <<>> THEN w ELSE WriteI16s(write_i16(w, Head(list)), Tail(list))

\* `writer.write_i16(list.len() as i16)?; for x in &list { writer.write_i16(*x)? }`
WriteI16List(w, list) == WriteI16s(WriteLen(w, Len(list)), list)

WriteAttribute(w, col, vertex) ==
    CASE col = "position" -> write_vector3_f32(w, vertex.position)
      [] col = "normal"   -> write_vector3_f32(w, vertex.normal)
      [] col = "color"    -> write_color4(w, vertex.color)
      [] col = "bone"     ->
           write_vector4_i16(write_vector4_f32(w, vertex.bone_weights), vertex.bone_indices)
      [] col = "tangent"  -> write_vector3_f32(w, vertex.tangent)
      [] col = "uv1"      -> write_vector2_f32(w, vertex.uv1)
      [] col = "uv2"      -> write_vector2_f32(w, vertex.uv2)
      [] col = "uv3"      -> write_vector2_f32(w, vertex.uv3)
      [] col = "uv4"      -> write_vector2_f32(w, vertex.uv4)

\* `for ref vertex in &self.vertices { ... }` of one column
RECURSIVE WriteColumnFrom(_, _, _)
WriteColumnFrom(w, col, vertices) ==
    IF vertices = <<>> THEN w
    ELSE WriteColumnFrom(WriteAttribute(w, col, Head(vertices)), col, Tail(vertices))

\* the column with the vertices taken from the last to the first
WriteColumnReversed(w, self, col) ==
    IF ColumnEnabled(self, col) THEN WriteColumnFrom(w, col, Reverse(self.vertices)) ELSE w

WriteColumn(w, self, col) ==
    IF ColumnEnabled(self, col) THEN WriteColumnFrom(w, col, self.vertices) ELSE w

\* lines 290-343
RECURSIVE WriteColumnsFrom(_, _, _)
WriteColumnsFrom(w, self, k) ==
    IF k > Len(Columns) THEN w
    ELSE WriteColumnsFrom(WriteColumn(w, self, Columns[k]), self, k + 1)

RECURSIVE WriteIndices(_, _)
WriteIndices(w, list) ==
    IF list = <<>> THEN w ELSE WriteIndices(write_vector3_i16(w, Head(list)), Tail(list))

WriteHeaderMaxFirst(w, self) ==
    LET w1 == write_cstring(w, ZMS0008)
        w2 == write_i32(w1, self.format)
        w3 == write_vector3_f32(w2, self.bounding_box.max)
        w4 == write_vector3_f32(w3, self.bounding_box.min)
        w5 == WriteI16List(w4, self.bones)
    IN  WriteLen(w5, Len(self.vertices))

\* lines 277-288
WriteHeader(w, self) ==
    LET w1 == write_cstring(w, ZMS0008)
        w2 == write_i32(w1, self.format)
        w3 == write_vector3_f32(w2, self.bounding_box.min)
        w4 == write_vector3_f32(w3, self.bounding_box.max)
        w5 == WriteI16List(w4, self.bones)
    IN  WriteLen(w5, Len(self.vertices))

\* lines 345-360
WriteTailNoPool(w, self) ==
    LET w1 == WriteIndices(WriteLen(w, Len(self.indices)), self.indices)
        w2 == WriteI16List(w1, self.materials)
    IN  WriteI16List(w2, self.strips)

WriteTail(w, self) ==
    LET w1 == WriteIndices(WriteLen(w, Len(self.indices)), self.indices)
        w2 == WriteI16List(w1, self.materials)
        w3 == WriteI16List(w2, self.strips)
    IN  write_i16(w3, self.pool)

\* the record with the identifier that write puts in the stream
SelfUpgraded(self) == [self EXCEPT !.identifier = ZMS0008]

\* lines 276-363 assign to no field of self
SelfAfterWrite(self) == self

ZmsWrite(self, w) ==
    [w |-> WriteTail(WriteColumnsFrom(WriteHeader(w, self), self, 1), self),
     err |-> "ok", self |-> SelfAfterWrite(self)]

(***************************************************************************)
(* vfs.rs: the index record.  Paths are the byte sequences of their text.  *)
(***************************************************************************)
VfsIndexNew == [base_version |-> 0, current_version |-> 0, file_systems |-> <<>>]

VfsMetadataNew == [filename |-> <<>>, files |-> <<>>]

VfsFileMetadataNew ==
    [filepath |-> <<>>, offset |-> 0, size |-> 0, block_size |-> 0,
     is_deleted |-> FALSE, is_compressed |-> FALSE, is_encrypted |-> FALSE,
     version |-> 0, checksum |-> 0]

\* PathBuf::from_rose_path: the archive's backslash becomes the host's slash
from_rose_path(s) == [i \in 1..Len(s) |-> IF s[i] = 92 THEN 47 ELSE s[i]]

\* `offset as u64` as a seek target: a negative i32 becomes a position of at
\* least 2^63, past the end of every stream; the model keeps one such position
AsU64(n) == IF n < 0 THEN 1073741824 ELSE n

\* Seek::seek(SeekFrom::Start(p)) on a Cursor
seek_start(rd, p) == [rd EXCEPT !.pos = p]

(***************************************************************************)
(* VfsIndex::load_reader.  The decode state is [rd, err, self, tr] as for  *)
(* the model codec; tr.entries logs, per archive iteration, the position   *)
(* of its header entry, next_filesystem, the body offset, the body's       *)
(* declared counts, where the body ended and where the seek back led.      *)
(* The stream's seeks can be made to fail: seeks is the number of seeks     *)
(* that succeed before one returns an Err (-1: they all succeed, as on a   *)
(* Cursor), seek_failed whether one has.  A seek that fails leaves the     *)
(* stream where it was.                                                    *)
(***************************************************************************)
LoadTraceNew == [vfs_count |-> 0, entries |-> <<>>]

\* the locals of one iteration of the archive loop: vfs, and what goes to the log
ArchiveLocalsNew ==
    [vfs |-> VfsMetadataNew,
     entry |-> [entry_start |-> -1, next_filesystem |-> -1, offset |-> 0,
                file_count |-> 0, delete_count |-> 0, start_offset |-> 0,
                body_end |-> -1, restored_to |-> -1]]

LoadStart(self, rd) ==
    [rd |-> rd, err |-> "ok", self |-> self, tr |-> LoadTraceNew,
     local |-> ArchiveLocalsNew, seeks |-> -1, seek_failed |-> FALSE]

\* the stream's seek budget after n more seeks were made
SeeksAfter(seeks, n) == IF seeks < 0 THEN seeks ELSE seeks - n

\* the state after a seek of the stream has returned an Err
SeekFailed(s) == [s EXCEPT !.seeks = -1, !.seek_failed = TRUE]

\* `vfs_file.<field> = <read>?` on a = [ok, val, rd], val the record being filled
SetFileField(a, field, r) ==
    IF ~r.ok THEN [a EXCEPT !.ok = FALSE, !.rd = r.rd]
    ELSE [a EXCEPT !.rd = r.rd, !.val[field] = r.val]

\* line 190
SetFilepath(a, r) ==
    IF ~r.ok THEN [a EXCEPT !.ok = FALSE, !.rd = r.rd]
    ELSE [a EXCEPT !.rd = r.rd, !.val.filepath = from_rose_path(r.val)]

ReadFilepath(a) == SetFilepath(a, read_string_u16(a.rd))

\* lines 191-193, 197-198
ReadI32Field(a, field) == IF ~a.ok THEN a ELSE SetFileField(a, field, read_i32(a.rd))

\* lines 194-196
ReadBoolField(a, field) == IF ~a.ok THEN a ELSE SetFileField(a, field, read_bool(a.rd))

\* lines 189-198: one file record, [ok, val, rd]
ReadVfsFile(rd) ==
    ReadI32Field(ReadI32Field(
      ReadBoolField(ReadBoolField(ReadBoolField(
        ReadI32Field(ReadI32Field(ReadI32Field(
          ReadFilepath([ok |-> TRUE, val |-> VfsFileMetadataNew, rd |-> rd]),
          "offset"), "size"), "block_size"),
        "is_deleted"), "is_compressed"), "is_encrypted"),
      "version"), "checksum")

\* `for _ in 0..file_count { ...; vfs.files.push(vfs_file) }`, [ok, val, rd]
RECURSIVE ReadVfsFiles(_, _, _)
PushVfsFile(f, files, n) ==
    IF ~f.ok THEN [ok |-> FALSE, val |-> files, rd |-> f.rd]
    ELSE ReadVfsFiles(f.rd, Append(files, f.val), n - 1)

ReadVfsFiles(rd, files, n) ==
    IF n <= 0 THEN [ok |-> TRUE, val |-> files, rd |-> rd]
    ELSE PushVfsFile(ReadVfsFile(rd), files, n)

\* line 178
BeginArchive(s) ==
    [s EXCEPT !.local = [ArchiveLocalsNew EXCEPT !.entry.entry_start = s.rd.pos]]

\* line 179
ReadFilename(s) ==
    LET r == read_string_u16(s.rd)
    IN  IF ~r.ok THEN IoFail(s, r.rd)
        ELSE [s EXCEPT !.rd = r.rd, !.local.vfs.filename = r.val]

\* lines 181-183: the offset, the position after it, the seek to the body;
\* both seeks are followed by `?`
ReadOffset(s) ==
    IF s.err # "ok" THEN s
    ELSE LET r == read_i32(s.rd)
         IN  IF ~r.ok THEN IoFail(s, r.rd)
             ELSE IF s.seeks \in {0, 1} THEN SeekFailed(IoFail(s, r.rd))
             ELSE [s EXCEPT !.rd = seek_start(r.rd, AsU64(r.val)),
                            !.local.entry.offset = r.val,
                            !.local.entry.next_filesystem = r.rd.pos,
                            !.seeks = SeeksAfter(@, 2)]

\* the body counts with a start offset that has to be non-negative
ReadCountValidated(s, name) ==
    IF s.err # "ok" THEN s
    ELSE LET r == read_i32(s.rd)
         IN  IF ~r.ok \/ (name = "start_offset" /\ r.val < 0) THEN IoFail(s, r.rd)
             ELSE [s EXCEPT !.rd = r.rd, !.local.entry[name] = r.val]

\* lines 185-187: file_count, _delete_count, _start_offset
ReadCount(s, name) ==
    IF s.err # "ok" THEN s
    ELSE LET r == read_i32(s.rd)
         IN  IF ~r.ok THEN IoFail(s, r.rd)
             ELSE [s EXCEPT !.rd = r.rd, !.local.entry[name] = r.val]

\* lines 189-201: r is the result of the file loop
SetFiles(s, r) ==
    IF ~r.ok THEN IoFail(s, r.rd)
    ELSE [s EXCEPT !.rd = r.rd, !.local.vfs.files = r.val,
                   !.local.entry.body_end = r.rd.pos]

ReadFiles(s) ==
    IF s.err # "ok" THEN s
    ELSE SetFiles(s, ReadVfsFiles(s.rd, <<>>, s.local.entry.file_count))

SeekBackNever(i, vfs_count) == FALSE

\* line 204
SeekBackNeeded(i, vfs_count) == i < vfs_count - 1

\* line 203, and line 205 when its seek returns an Err: `let _ =` drops it
PushOnly(s) ==
    [s EXCEPT !.self.file_systems = Append(@, s.local.vfs),
              !.tr.entries = Append(@, s.local.entry)]

\* lines 203-206
PushArchive(s, i) ==
    IF s.err # "ok" THEN s
    ELSE IF SeekBackNeeded(i, s.tr.vfs_count)
    THEN IF s.seeks = 0 THEN SeekFailed(PushOnly(s))
         ELSE [s EXCEPT !.rd = seek_start(s.rd, s.local.entry.next_filesystem),
                        !.self.file_systems = Append(@, s.local.vfs),
                        !.tr.entries =
                            Append(@, [s.local.entry EXCEPT
                                         !.restored_to = s.local.entry.next_filesystem]),
                        !.seeks = SeeksAfter(@, 1)]
    ELSE PushOnly(s)

\* lines 177-206: iteration i of the archive loop
ReadArchive(s, i) ==
    PushArchive(
      ReadFiles(
        ReadCount(ReadCount(ReadCount(ReadOffset(ReadFilename(BeginArchive(s))),
          "file_count"), "delete_count"), "start_offset")), i)

\* the range taken to its end, one iteration late
ArchiveLoopDoneLate(i, vfs_count) == i > vfs_count

\* line 177: the range 0..vfs_count has given all its values
ArchiveLoopDone(i, vfs_count) == i >= vfs_count

\* `for i in 0..vfs_count { ... }`
RECURSIVE ReadArchivesFrom(_, _)
ReadArchivesFrom(s, i) ==
    IF s.err # "ok" \/ ArchiveLoopDone(i, s.tr.vfs_count) THEN s
    ELSE ReadArchivesFrom(ReadArchive(s, i), i + 1)

\* lines 172-173
ReadVersion(s, field) ==
    IF s.err # "ok" THEN s
    ELSE LET r == read_i32(s.rd)
         IN  IF ~r.ok THEN IoFail(s, r.rd) ELSE [s EXCEPT !.rd = r.rd, !.self[field] = r.val]

\* line 175
ReadVfsCount(s) ==
    IF s.err # "ok" THEN s
    ELSE LET r == read_i32(s.rd)
         IN  IF ~r.ok THEN IoFail(s, r.rd) ELSE [s EXCEPT !.rd = r.rd, !.tr.vfs_count = r.val]

\* lines 172-175
ReadVersions(s) ==
    ReadVfsCount(ReadVersion(ReadVersion(s, "base_version"), "current_version"))

load_reader(self, rd) == ReadArchivesFrom(ReadVersions(LoadStart(self, rd)), 0)

\* load_reader on a stream whose seek number k + 1 returns an Err
load_reader_seeks(self, rd, k) ==
    ReadArchivesFrom(ReadVersions([LoadStart(self, rd) EXCEPT !.seeks = k]), 0)

(***************************************************************************)
(* VfsIndex::save_writer, on a Cursor<Vec<u8>>.  The encode state is       *)
(* [w, err, self, tr]; tr logs file_system_offsets (the placeholder        *)
(* positions), and per body written its start (file_offset) and its end.   *)
(* tr.events logs, in the order they happen, each write of a placeholder,  *)
(* each patch of one and each start of a body: the archive i, the position *)
(* `at` the bytes go to, the 32-bit value written first and the position   *)
(* `from` that the stream was at when the step began.                      *)
(***************************************************************************)
SaveTraceNew ==
    [file_system_offsets |-> <<>>, file_offsets |-> <<>>, body_ends |-> <<>>,
     events |-> <<>>]

SaveEvent(kind, i, at, value, from) ==
    [kind |-> kind, i |-> i, at |-> at, value |-> value, from |-> from]

DeletedCountKept(files) == Cardinality({k \in 1..Len(files) : ~files[k].is_deleted})

\* lines 237-242
DeletedCount(files) == Cardinality({k \in 1..Len(files) : files[k].is_deleted})

\* lines 249-258
WriteVfsFile(w, file) ==
    LET w1 == write_string_u16(w, file.filepath)
        w2 == write_i32(w1, file.offset)
        w3 == write_i32(w2, file.size)
        w4 == write_i32(w3, file.block_size)
        w5 == write_bool(w4, file.is_deleted)
        w6 == write_bool(w5, file.is_compressed)
        w7 == write_bool(w6, file.is_encrypted)
        w8 == write_i32(w7, file.version)
    IN  write_i32(w8, file.checksum)

RECURSIVE WriteVfsFiles(_, _)
WriteVfsFiles(w, files) ==
    IF files = <<>> THEN w ELSE WriteVfsFiles(WriteVfsFile(w, Head(files)), Tail(files))

\* lines 230-235: the placeholder of archive i is patched with the body start
PatchOffsetStay(w, placeholder) ==
    write_i32(seek_start(w, placeholder), AsI32(w.pos))

PatchOffset(w, placeholder) ==
    LET file_offset == w.pos
        w1 == seek_start(w, placeholder)
        w2 == write_i32(w1, AsI32(file_offset))
    IN  seek_start(w2, file_offset)

\* lines 228-259: iteration i of pass 2; vfs.files[0] panics on an empty list
WriteBody(s, i) ==
    LET vfs == s.self.file_systems[i]
        file_offset == s.w.pos
        w1 == PatchOffset(s.w, s.tr.file_system_offsets[i])
        w2 == write_i32(w1, AsI32(Len(vfs.files)))
        w3 == write_i32(w2, DeletedCount(vfs.files))
        s1 == [s EXCEPT !.tr.file_offsets = Append(@, file_offset),
                        !.tr.events =
                            @ \o << SaveEvent("patch", i, s.tr.file_system_offsets[i],
                                              AsI32(file_offset), s.w.pos),
                                    SaveEvent("body", i, w1.pos, AsI32(Len(vfs.files)),
                                              w1.pos) >>]
    IN  IF vfs.files = <<>> THEN [s1 EXCEPT !.w = w3, !.err = "panic"]
        ELSE LET w4 == write_i32(w3, vfs.files[1].offset)
                 w5 == WriteVfsFiles(w4, vfs.files)
             IN  [s1 EXCEPT !.w = w5, !.tr.body_ends = Append(@, w5.pos)]

\* pass 1 with the body of each archive written right after its placeholder
RECURSIVE WritePlaceholdersEager(_, _)
WritePlaceholdersEager(s, i) ==
    IF i > Len(s.self.file_systems) THEN s
    ELSE LET w1 == write_string_u16(s.w, s.self.file_systems[i].filename)
         IN  WritePlaceholdersEager(
                 WriteBody(
                   [s EXCEPT !.w = write_i32(w1, 0),
                             !.tr.file_system_offsets = Append(@, w1.pos),
                             !.tr.events =
                                 Append(@, SaveEvent("placeholder", i, w1.pos, 0, s.w.pos))],
                   i), i + 1)

\* lines 219-225: pass 1
RECURSIVE WritePlaceholders(_, _)
WritePlaceholders(s, i) ==
    IF i > Len(s.self.file_systems) THEN s
    ELSE LET w1 == write_string_u16(s.w, s.self.file_systems[i].filename)
         IN  WritePlaceholders(
                 [s EXCEPT !.w = write_i32(w1, 0),
                           !.tr.file_system_offsets = Append(@, w1.pos),
                           !.tr.events =
                               Append(@, SaveEvent("placeholder", i, w1.pos, 0, s.w.pos))],
                 i + 1)

\* pass 2 taking the archives last to first
RECURSIVE WriteBodiesReversed(_, _)
WriteBodiesReversed(s, i) ==
    IF s.err # "ok" \/ i > Len(s.self.file_systems) THEN s
    ELSE WriteBodiesReversed(WriteBody(s, Len(s.self.file_systems) - i + 1), i + 1)

RECURSIVE WriteBodiesFrom(_, _)
WriteBodiesFrom(s, i) ==
    IF s.err # "ok" \/ i > Len(s.self.file_systems) THEN s
    ELSE WriteBodiesFrom(WriteBody(s, i), i + 1)

\* lines 213-215
WriteVersions(s) ==
    [s EXCEPT !.w = write_i32(write_i32(write_i32(s.w, s.self.base_version),
                                        s.self.current_version),
                              AsI32(Len(s.self.file_systems)))]

save_writer(self, w) ==
    WriteBodiesFrom(
      WritePlaceholders(
        WriteVersions([w |-> w, err |-> "ok", self |-> self, tr |-> SaveTraceNew]), 1), 1)

(***************************************************************************)
(* lightmap.rs: the lightmap record and its codec.  Strings are the byte   *)
(* sequences of their text.                                                *)
(***************************************************************************)
LightmapNew == [objects |-> <<>>, filenames |-> <<>>]

LightmapObjectNew == [id |-> -1, parts |-> <<>>]

LightmapPartNew ==
    [name |-> <<>>, id |-> -1, filename |-> <<>>, lightmap_index |-> -1,
     pixels_per_part |-> 0, parts_per_width |-> 0, part_position |-> -1]

\* no lightmap call made yet
LitIdle ==
    /\ orig_lit = LightmapNew
    /\ new_lit = LightmapNew
    /\ lres = [load |-> "none", save |-> "none", reload |-> "none"]

\* `part.<field> = <read>?` on a = [ok, val, rd], val the part being filled
SetPartField(a, field, r) ==
    IF ~r.ok THEN [a EXCEPT !.ok = FALSE, !.rd = r.rd]
    ELSE [a EXCEPT !.rd = r.rd, !.val[field] = r.val]

\* lines 138, 140
ReadPartString(a, field) ==
    IF ~a.ok THEN a ELSE SetPartField(a, field, read_string_u8(a.rd))

\* lines 139, 141-144
ReadPartI32(a, field) == IF ~a.ok THEN a ELSE SetPartField(a, field, read_i32(a.rd))

\* lines 137-144: one part, [ok, val, rd]
ReadPart(rd) ==
    ReadPartI32(ReadPartI32(ReadPartI32(ReadPartI32(
      ReadPartString(ReadPartI32(
        ReadPartString([ok |-> TRUE, val |-> LightmapPartNew, rd |-> rd], "name"),
        "id"), "filename"),
      "lightmap_index"), "pixels_per_part"), "parts_per_width"), "part_position")

\* `for _ in 0..part_count { ...; object.parts.push(part) }`, [ok, val, rd]
RECURSIVE ReadParts(_, _, _)
PushPart(f, parts, n) ==
    IF ~f.ok THEN [ok |-> FALSE, val |-> parts, rd |-> f.rd]
    ELSE ReadParts(f.rd, Append(parts, f.val), n - 1)

ReadParts(rd, parts, n) ==
    IF n <= 0 THEN [ok |-> TRUE, val |-> parts, rd |-> rd]
    ELSE PushPart(ReadPart(rd), parts, n)

\* line 134: object.id, for an object of part_count parts; [ok, val, rd, n]
SetObjectId(part_count, r) ==
    [ok |-> r.ok, val |-> [LightmapObjectNew EXCEPT !.id = IF r.ok THEN r.val ELSE @],
     rd |-> r.rd, n |-> part_count]

\* lines 133-134: c is the read of part_count
ReadObjectId(c) ==
    IF ~c.ok THEN [ok |-> FALSE, val |-> LightmapObjectNew, rd |-> c.rd, n |-> 0]
    ELSE SetObjectId(c.val, read_i32(c.rd))

\* lines 136-147: r is the result of the part loop
SetObjectParts(o, r) ==
    IF ~r.ok THEN [o EXCEPT !.ok = FALSE, !.rd = r.rd]
    ELSE [o EXCEPT !.rd = r.rd, !.val.parts = r.val]

ReadObjectParts(o) == IF ~o.ok THEN o ELSE SetObjectParts(o, ReadParts(o.rd, <<>>, o.n))

\* lines 131-147: one object
ReadObject(rd) == ReadObjectParts(ReadObjectId(read_i32(rd)))

\* `for _ in 0..object_count { ...; self.objects.push(object) }` on the
\* decode state s = [rd, err, self]
RECURSIVE ReadObjects(_, _)
PushObject(s, o, n) ==
    IF ~o.ok THEN [s EXCEPT !.rd = o.rd, !.err = "io"]
    ELSE ReadObjects([s EXCEPT !.rd = o.rd, !.self.objects = Append(@, o.val)], n - 1)

ReadObjects(s, n) == IF n <= 0 THEN s ELSE PushObject(s, ReadObject(s.rd), n)

\* lines 128-150: r is the read of object_count
ReadObjectList(s, r) ==
    IF ~r.ok THEN [s EXCEPT !.rd = r.rd, !.err = "io"]
    ELSE ReadObjects([s EXCEPT !.rd = r.rd], r.val)

\* `for _ in 0..file_count { self.filenames.push(reader.read_string_u8()?) }`
RECURSIVE ReadFilenames(_, _)
PushFilename(s, r, n) ==
    IF ~r.ok THEN [s EXCEPT !.rd = r.rd, !.err = "io"]
    ELSE ReadFilenames([s EXCEPT !.rd = r.rd, !.self.filenames = Append(@, r.val)], n - 1)

ReadFilenames(s, n) == IF n <= 0 THEN s ELSE PushFilename(s, read_string_u8(s.rd), n)

\* lines 152-156: r is the read of file_count
ReadFilenameList(s, r) ==
    IF ~r.ok THEN [s EXCEPT !.rd = r.rd, !.err = "io"]
    ELSE ReadFilenames([s EXCEPT !.rd = r.rd], r.val)

ReadFilenamesAfter(s) == IF s.err # "ok" THEN s ELSE ReadFilenameList(s, read_i32(s.rd))

\* Lightmap::load_reader
lit_load_reader(self, rd) ==
    ReadFilenamesAfter(
      ReadObjectList([rd |-> rd, err |-> "ok", self |-> self], read_i32(rd)))

\* lines 171-177: one part
WritePart(w, part) ==
    write_i32(write_i32(write_i32(write_i32(
      write_string_u8(
        write_i32(write_string_u8(w, part.name), part.id),
        part.filename),
      part.lightmap_index), part.pixels_per_part), part.parts_per_width),
      part.part_position)

RECURSIVE WriteParts(_, _)
WriteParts(w, parts) ==
    IF parts = <<>> THEN w ELSE WriteParts(WritePart(w, Head(parts)), Tail(parts))

\* lines 167-178: one object
WriteObject(w, object) ==
    WriteParts(write_i32(write_i32(w, AsI32(Len(object.parts))), object.id), object.parts)

RECURSIVE WriteObjects(_, _)
WriteObjects(w, objects) ==
    IF objects = <<>> THEN w ELSE WriteObjects(WriteObject(w, Head(objects)), Tail(objects))

RECURSIVE WriteFilenames(_, _)
WriteFilenames(w, filenames) ==
    IF filenames = <<>> THEN w
    ELSE WriteFilenames(write_string_u8(w, Head(filenames)), Tail(filenames))

\* Lightmap::save_writer, on a Cursor<Vec<u8>>: [w, err, self]
lit_save_writer(self, w) ==
    [w |-> WriteFilenames(
             write_i32(WriteObjects(write_i32(w, AsI32(Len(self.objects))), self.objects),
                       AsI32(Len(self.filenames))),
             self.filenames),
     err |-> "ok", self |-> self]

(***************************************************************************)
(* Input streams for ModelFile::read.  A stream is laid out field by       *)
(* field; field contents are filler bytes that depend on the position.     *)
(***************************************************************************)
FillByte(q) == (q * 37 + 11) % 256

Fill(from, n) == [i \in 1..n |-> FillByte(from + i)]

\* items are <<"lit", bytes>> or <<"fill", n>>
RECURSIVE Assemble(_, _)
Assemble(items, acc) ==
    IF items = <<>> THEN acc
    ELSE LET it == Head(items)
         IN  Assemble(Tail(items),
                      acc \o (IF it[1] = "lit" THEN it[2] ELSE Fill(Len(acc), it[2])))

\* bytes one vertex takes in a column: the f32 / i16 components read for it
ColumnSize(col) ==
    CASE col \in {"position", "normal", "tangent"} -> 12
      [] col = "color" -> 16
      [] col = "bone" -> 24
      [] col \in {"uv1", "uv2", "uv3", "uv4"} -> 8

\* the bits of the format bitmask a column needs
GateBits(col) ==
    CASE col = "position" -> {1}
      [] col = "normal"   -> {2}
      [] col = "color"    -> {3}
      [] col = "bone"     -> {4, 5}
      [] col = "tangent"  -> {6}
      [] col = "uv1"      -> {7}
      [] col = "uv2"      -> {8}
      [] col = "uv3"      -> {9}
      [] col = "uv4"      -> {10}

Gated(format, col) == \A k \in GateBits(col) : BitOf(format, k) = 1

ColumnSet == {Columns[i] : i \in 1..Len(Columns)}

\* bytes of all columns of one vertex under a format
RECURSIVE VertexBytesFrom(_, _)
VertexBytesFrom(format, k) ==
    IF k > Len(Columns) THEN 0
    ELSE (IF Gated(format, Columns[k]) THEN ColumnSize(Columns[k]) ELSE 0)
           + VertexBytesFrom(format, k + 1)

VertexBytes(format) == VertexBytesFrom(format, 1)

NonNeg(n) == IF n < 0 THEN 0 ELSE n

ZmsStream(id, format, bc, vc, ic, mc, sc) ==
    Assemble(<< <<"lit", id \o <<0>> >>, <<"lit", BytesOf32(format)>>, <<"fill", 24>>,
                <<"lit", BytesOf16(bc)>>, <<"fill", 2 * NonNeg(bc)>>,
                <<"lit", BytesOf16(vc)>>, <<"fill", NonNeg(vc) * VertexBytes(format)>>,
                <<"lit", BytesOf16(ic)>>, <<"fill", 6 * NonNeg(ic)>>,
                <<"lit", BytesOf16(mc)>>, <<"fill", 2 * NonNeg(mc)>>,
                <<"lit", BytesOf16(sc)>>, <<"fill", 2 * NonNeg(sc)>>,
                <<"fill", IF id = ZMS0008 THEN 2 ELSE 0>> >>, <<>>)

\* format bitmasks: none, each bit 0..11 alone, both bone bits, the formats of
\* the test models, all bits
FormatSet == {0, 48, 134, 182, 390, -1} \cup {Pow2(k) : k \in 0..11}

\* the three trailing counts: one of them set, or all equal
TailCounts ==
    {<<0, 0, 0>>}
      \cup {<<k, 0, 0>> : k \in (-1)..MaxTail}
      \cup {<<0, k, 0>> : k \in (-1)..MaxTail}
      \cup {<<0, 0, k>> : k \in (-1)..MaxTail}
      \cup {<<k, k, k>> : k \in 1..MaxTail}

\* streams with a supported identifier and every field present
ZmsWellFormed ==
    {ZmsStream(id, f, bc, vc, t[1], t[2], t[3]) :
        id \in {ZMS0007, ZMS0008}, f \in FormatSet,
        bc \in (-1)..MaxBones, vc \in (-1)..MaxVerts, t \in TailCounts}

\* well-formed streams of two formats, to be extended or cut short
ZmsBase ==
    {ZmsStream(id, f, bc, vc, t[1], t[2], t[3]) :
        id \in {ZMS0007, ZMS0008}, f \in {134, -1},
        bc \in (-1)..MaxBones, vc \in (-1)..MaxVerts, t \in TailCounts}

\* with two bytes after the last field
ZmsTrailing == {b \o <<171, 205>> : b \in ZmsBase}

\* with the last byte missing
ZmsTruncated == {SubSeq(b, 1, Len(b) - 1) : b \in ZmsBase}

\* other identifiers, terminated
ZmsOtherIds ==
    {ZmsStream(id, f, 0, 1, 1, 0, 0) :
        id \in {<<>>, <<90, 77, 83, 48, 48, 48, 54>>, <<90, 77, 83, 48, 48, 48, 57>>,
                <<122, 109, 115, 48, 48, 48, 56>>, ZMS0007 \o <<48>>, <<255>>},
        f \in {0, 2, -1}}

\* streams that end before any zero byte
ZmsUnterminated == {ZMS0008, ZMS0007 \o <<88>>, <<90, 77, 83>>}

\* every prefix of the largest stream of each version
Prefixes(b) == {SubSeq(b, 1, n) : n \in 0..Len(b)}

ZmsPrefixes ==
    UNION {Prefixes(ZmsStream(id, 182, MaxBones, MaxVerts, MaxTail, MaxTail, MaxTail)) :
              id \in {ZMS0007, ZMS0008}}

ZmsStreams ==
    ZmsWellFormed \cup ZmsTrailing \cup ZmsTruncated \cup ZmsOtherIds \cup ZmsUnterminated
      \cup ZmsPrefixes

(***************************************************************************)
(* The model codec driven as tests::model_save drives it: decode a stream  *)
(* into a fresh record, write the record to an empty cursor, rewind,       *)
(* decode the written bytes into another fresh record.                     *)
(***************************************************************************)
ZmsInit ==
    /\ pc = "start"
    /\ reader \in {Cursor(b, 0) : b \in ZmsStreams}
    /\ orig_zms = ModelFileNew
    /\ cursor = Cursor(<<>>, 0)
    /\ new_zms = ModelFileNew
    /\ zres = [read |-> "none", write |-> "none", reread |-> "none"]
    /\ ztrace = [read |-> ReadTraceNew, reread |-> ReadTraceNew]
    /\ orig_idx = VfsIndexNew
    /\ new_idx = VfsIndexNew
    /\ ires = [load |-> "none", save |-> "none", reload |-> "none"]
    /\ itrace = [load |-> LoadTraceNew, save |-> SaveTraceNew, reload |-> LoadTraceNew]
    /\ LitIdle
    /\ prim = PrimNew

\* RoseFile::from_reader: new, then read
ZmsFromReader ==
    /\ pc = "start"
    /\ \E s \in {ZmsRead(ModelFileNew, reader)} :
           /\ reader' = s.rd
           /\ orig_zms' = s.self
           /\ zres' = [zres EXCEPT !.read = s.err]
           /\ ztrace' = [ztrace EXCEPT !.read = s.tr]
    /\ pc' = "read"
    /\ UNCHANGED <<cursor, new_zms, ivars, prim, lvars>>

\* orig_zms.write(&mut cursor)
ZmsWriteCursor ==
    /\ pc = "read"
    /\ zres.read = "ok"
    /\ \E r \in {ZmsWrite(orig_zms, cursor)} :
           /\ cursor' = r.w
           /\ orig_zms' = r.self
           /\ zres' = [zres EXCEPT !.write = r.err]
    /\ pc' = "written"
    /\ UNCHANGED <<reader, new_zms, ztrace, ivars, prim, lvars>>

\* cursor.set_position(0); new_zms = ModelFile::new(); new_zms.read(&mut cursor)
ZmsReadBack ==
    /\ pc = "written"
    /\ zres.write = "ok"
    /\ \E s \in {ZmsRead(ModelFileNew, [cursor EXCEPT !.pos = 0])} :
           /\ cursor' = s.rd
           /\ new_zms' = s.self
           /\ zres' = [zres EXCEPT !.reread = s.err]
           /\ ztrace' = [ztrace EXCEPT !.reread = s.tr]
    /\ pc' = "reread"
    /\ UNCHANGED <<reader, orig_zms, ivars, prim, lvars>>

ZmsNext == ZmsFromReader \/ ZmsWriteCursor \/ ZmsReadBack

SpecZms == ZmsInit /\ [][ZmsNext]_vars

(***************************************************************************)
(* Properties of the model codec.                                          *)
(***************************************************************************)
\* the bytes of the input that the first read consumed
ConsumedInput == SubSeq(reader.buf, 1, reader.pos)

\* C1: decoding, writing and decoding again gives a record equal to the first
\* one in every field but the identifier, which is "ZMS0008" in the second.
C1_ModelRoundTrip ==
    pc = "reread" =>
        /\ zres.reread = "ok"
        /\ new_zms = [orig_zms EXCEPT !.identifier = ZMS0008]

C1_Witness ==
    /\ pc = "reread"
    /\ orig_zms.identifier = ZMS0007
    /\ new_zms.identifier = ZMS0008
    /\ orig_zms.format = 182
    /\ Len(orig_zms.vertices) >= 1
    /\ orig_zms.vertices[1].bone_weights # Vector4F32New
    /\ Len(orig_zms.bones) >= 1
    /\ Len(orig_zms.indices) >= 1

\* C2: whatever the outcome of read, a column whose gating bits are not all set
\* consumes no byte and leaves its attribute at the default in every vertex; a
\* successful read has consumed, for each column whose bits are set, that
\* column's bytes for every vertex.  The bone column needs both bits 4 and 5.
C2_BitmaskGating ==
    pc # "start" /\ zres.read \in {"ok", "io", "panic"} =>
        \A col \in ColumnSet :
            /\ ~Gated(orig_zms.format, col) =>
                 /\ ztrace.read.consumed[col] = 0
                 /\ col = "bone" =>
                      \A i \in 1..Len(orig_zms.vertices) :
                          /\ orig_zms.vertices[i].bone_weights = Vector4F32New
                          /\ orig_zms.vertices[i].bone_indices = Vector4I16New
            /\ (zres.read = "ok" /\ Gated(orig_zms.format, col)) =>
                 ztrace.read.consumed[col] = Len(orig_zms.vertices) * ColumnSize(col)

C2_Witness ==
    /\ pc = "read"
    /\ zres.read = "ok"
    /\ BitOf(orig_zms.format, 4) = 1
    /\ BitOf(orig_zms.format, 5) = 0
    /\ Len(orig_zms.vertices) >= 1
    /\ ztrace.read.consumed["bone"] = 0

\* C3: an identifier other than "ZMS0007" and "ZMS0008" makes read fail with the
\* version error; the stream is then one past the identifier's zero byte (at
\* the end of a stream that holds no zero byte) and format is not assigned.
C3_UnsupportedVersion ==
    pc = "read" /\ orig_zms.identifier \notin {ZMS0007, ZMS0008} =>
        /\ zres.read = "version"
        /\ reader.pos = (IF FirstZero(reader.buf) > 0 THEN FirstZero(reader.buf)
                         ELSE Len(reader.buf))
        /\ ztrace.read.id_end = reader.pos
        /\ orig_zms.format = ModelFileNew.format

C3_Witness ==
    /\ pc = "read"
    /\ zres.read = "version"
    /\ FirstZero(reader.buf) = 8
    /\ reader.pos = 8
    /\ Len(reader.buf) > 12

\* C9: a successful read consumes the 16-bit pool after the strips only for
\* "ZMS0008"; for "ZMS0007" it stops at the end of the strips with pool 0.
\* write starts with "ZMS0008" and ends with the 16 bits of pool.
C9_VersionGatedPool ==
    /\ (pc # "start" /\ zres.read = "ok") =>
          IF orig_zms.identifier = ZMS0008
          THEN /\ reader.pos = ztrace.read.strips_end + 2
               /\ orig_zms.pool = I16OfBytes(SubSeq(reader.buf, reader.pos - 1, reader.pos))
          ELSE /\ orig_zms.identifier = ZMS0007
               /\ reader.pos = ztrace.read.strips_end
               /\ orig_zms.pool = 0
    /\ pc = "written" =>
          /\ SubSeq(cursor.buf, 1, 8) = ZMS0008 \o <<0>>
          /\ cursor.pos = Len(cursor.buf)
          /\ SubSeq(cursor.buf, Len(cursor.buf) - 1, Len(cursor.buf)) = BytesOf16(orig_zms.pool)
          /\ Len(cursor.buf) = ztrace.read.strips_end + 2

C9_Witness ==
    /\ pc = "written"
    /\ orig_zms.identifier = ZMS0007
    /\ Len(reader.buf) >= reader.pos + 2
    /\ Len(orig_zms.strips) >= 1

C9_WitnessPool ==
    /\ pc = "written"
    /\ orig_zms.identifier = ZMS0008
    /\ orig_zms.pool # 0

\* the output expected of re-encoding the consumed input
Reencoded ==
    IF orig_zms.identifier = ZMS0008 THEN ConsumedInput
    ELSE ZMS0008 \o SubSeq(ConsumedInput, 8, Len(ConsumedInput)) \o <<0, 0>>

\* C10 as stated: for every accepted stream, the written bytes are the consumed
\* bytes ("ZMS0008") or the consumed bytes with the identifier replaced and a
\* 16-bit zero appended ("ZMS0007").
C10_ByteReencodeAll == pc = "written" => cursor.buf = Reencoded

DeclaredNonNegative == \A f \in DOMAIN ztrace.read.declared : ztrace.read.declared[f] >= 0

\* C10 amended: the same for every accepted stream whose five declared counts
\* are not negative.
C10_ByteReencode ==
    (pc = "written" /\ DeclaredNonNegative) =>
        /\ cursor.buf = Reencoded
        /\ orig_zms.identifier = ZMS0007 => Len(cursor.buf) = reader.pos + 2

C10_Witness ==
    /\ pc = "written"
    /\ DeclaredNonNegative
    /\ orig_zms.identifier = ZMS0007
    /\ Len(orig_zms.vertices) >= 1
    /\ Len(orig_zms.indices) >= 1
    /\ orig_zms.format = 390

\* the order of the attribute columns on the wire
ClaimedOrder ==
    <<"position", "normal", "color", "bone", "tangent", "uv1", "uv2", "uv3", "uv4">>

\* the bytes that the enabled columns before column k take for n vertices
RECURSIVE ColumnsBefore(_, _, _)
ColumnsBefore(self, n, k) ==
    IF k <= 1 THEN 0
    ELSE (IF ColumnEnabled(self, ClaimedOrder[k - 1])
          THEN n * ColumnSize(ClaimedOrder[k - 1]) ELSE 0)
           + ColumnsBefore(self, n, k - 1)

\* where, from the start of the columns, the attribute of vertex v (from 1)
\* in column k lies when whole columns follow one another
CellStart(self, k, v) ==
    ColumnsBefore(self, Len(self.vertices), k) + (v - 1) * ColumnSize(ClaimedOrder[k])

\* the bytes of one attribute of a vertex; the bone column holds the four
\* weights, then the four indices
CellBytes(col, vertex) ==
    IF col = "bone"
    THEN write_vector4_f32(Cursor(<<>>, 0), vertex.bone_weights).buf
           \o write_vector4_i16(Cursor(<<>>, 0), vertex.bone_indices).buf
    ELSE WriteAttribute(Cursor(<<>>, 0), col, vertex).buf

\* buf holds, from position start, the enabled columns of self one whole
\* column after the other in the order above, each with the vertices in order
ColumnMajor(buf, start, self) ==
    \A k \in 1..Len(ClaimedOrder) :
        ColumnEnabled(self, ClaimedOrder[k]) =>
            \A v \in 1..Len(self.vertices) :
                SubSeq(buf, start + CellStart(self, k, v) + 1,
                       start + CellStart(self, k, v) + ColumnSize(ClaimedOrder[k]))
                  = CellBytes(ClaimedOrder[k], self.vertices[v])

\* where write puts the first column: after the identifier and its zero byte,
\* the format, the bounding box, the bones with their count, the vertex count
WrittenColsStart(self) == 8 + 4 + 24 + 2 + 2 * Len(self.bones) + 2

\* C19: read takes, and write puts, the enabled attribute columns in the
\* order position, normal, color, bone, tangent, uv1..uv4, each column whole
\* for vertex 0..N-1 before the next column starts, a bone cell being the
\* four weights followed by the four indices.
C19_ColumnMajor ==
    /\ (pc \in {"read", "written", "reread"} /\ zres.read = "ok") =>
           ColumnMajor(reader.buf, ztrace.read.cols_start, orig_zms)
    /\ (pc \in {"written", "reread"} /\ zres.write = "ok") =>
           ColumnMajor(cursor.buf, WrittenColsStart(orig_zms), orig_zms)

\* two different vertices with four columns, the bone column among them,
\* read and written
C19_Witness ==
    /\ pc = "written"
    /\ zres.write = "ok"
    /\ Len(orig_zms.vertices) = 2
    /\ orig_zms.vertices[1] # orig_zms.vertices[2]
    /\ ColumnEnabled(orig_zms, "position")
    /\ ColumnEnabled(orig_zms, "bone")
    /\ ColumnEnabled(orig_zms, "uv1")
    /\ orig_zms.vertices[2].bone_indices # Vector4I16New

\* the fields of a vertex that a column fills
ColumnFields(col) == IF col = "bone" THEN {"bone_weights", "bone_indices"} ELSE {col}

\* every attribute of a disabled column of every vertex is as ModelVertex::new
\* made it
DisabledAreDefault(self) ==
    \A k \in 1..Len(ClaimedOrder) :
        ~ColumnEnabled(self, ClaimedOrder[k]) =>
            \A v \in 1..Len(self.vertices) :
                \A f \in ColumnFields(ClaimedOrder[k]) :
                    self.vertices[v][f] = ModelVertexNew[f]

\* C25 as stated: after a successful read each sequence has as many entries
\* as its declared count.
C25_LengthsAsDeclared ==
    (pc = "read" /\ zres.read = "ok") =>
        /\ Len(orig_zms.bones) = ztrace.read.declared.bones
        /\ Len(orig_zms.vertices) = ztrace.read.declared.vertices
        /\ Len(orig_zms.indices) = ztrace.read.declared.indices
        /\ Len(orig_zms.materials) = ztrace.read.declared.materials
        /\ Len(orig_zms.strips) = ztrace.read.declared.strips

\* C25, amended: after a successful read into a fresh record each sequence
\* has as many entries as its declared count, none for a negative count;
\* every enabled attribute of every vertex holds what its bytes of the
\* stream hold, and every disabled attribute its default.
C25_SequenceLengths ==
    (pc = "read" /\ zres.read = "ok") =>
        /\ Len(orig_zms.bones) = NonNeg(ztrace.read.declared.bones)
        /\ Len(orig_zms.vertices) = NonNeg(ztrace.read.declared.vertices)
        /\ Len(orig_zms.indices) = NonNeg(ztrace.read.declared.indices)
        /\ Len(orig_zms.materials) = NonNeg(ztrace.read.declared.materials)
        /\ Len(orig_zms.strips) = NonNeg(ztrace.read.declared.strips)
        /\ ColumnMajor(reader.buf, ztrace.read.cols_start, orig_zms)
        /\ DisabledAreDefault(orig_zms)

\* two vertices with some columns enabled and some not, a bone, an index
C25_Witness ==
    /\ pc = "read"
    /\ zres.read = "ok"
    /\ ztrace.read.declared.vertices = 2
    /\ ztrace.read.declared.bones = 1
    /\ ztrace.read.declared.indices = 1
    /\ ColumnEnabled(orig_zms, "normal")
    /\ ~ColumnEnabled(orig_zms, "color")
    /\ orig_zms.vertices[2].normal # Vector3F32New

\* a negative count read as an empty sequence
C25_WitnessNegative ==
    /\ pc = "read"
    /\ zres.read = "ok"
    /\ ztrace.read.declared.vertices < 0
    /\ ztrace.read.declared.bones < 0

(***************************************************************************)
(* Input streams for VfsIndex::load_reader: a header table of (filename,   *)
(* body offset) entries and the archive bodies, laid out in several ways.  *)
(***************************************************************************)
Flavours == {"plain", "flags", "nul"}

\* the stored archive filename of a flavour: "D", "M", "N\0\0"
RawName(flavour) ==
    CASE flavour = "plain" -> <<68>>
      [] flavour = "flags" -> <<77>>
      [] flavour = "nul"   -> <<78, 0, 0>>

\* the stored bytes of file k of an archive of a flavour
RawFile(flavour, k) ==
    CASE flavour = "plain" ->
           BytesOf16(3) \o <<65, 92, 48 + k>> \o BytesOf32(10 * k) \o BytesOf32(3)
             \o BytesOf32(4) \o <<0, 0, 0>> \o BytesOf32(1) \o BytesOf32(k)
      [] flavour = "flags" ->
           BytesOf16(1) \o <<98 + k>> \o BytesOf32(-5) \o BytesOf32(70000)
             \o BytesOf32(0) \o <<k % 2, 2, 1 - (k % 2)>> \o BytesOf32(-1)
             \o BytesOf32(305419896)
      [] flavour = "nul" ->
           BytesOf16(2) \o <<112, 0>> \o BytesOf32(k) \o BytesOf32(0)
             \o BytesOf32(0) \o <<1, 0, 0>> \o BytesOf32(0) \o BytesOf32(0)

\* the deleted-count and start-offset fields stored in a body
RawDeleteCount(shape) == IF shape.flavour = "flags" THEN 7 ELSE 0

RawStartOffset(shape) == IF shape.flavour = "plain" THEN 10 ELSE 99

\* the two fields after the file count; a shape can name its own
BodyFields(shape) ==
    IF "fields" \in DOMAIN shape
    THEN BytesOf32(shape.fields[1]) \o BytesOf32(shape.fields[2])
    ELSE BytesOf32(RawDeleteCount(shape)) \o BytesOf32(RawStartOffset(shape))

BodyBytes(shape) ==
    BytesOf32(shape.n) \o BodyFields(shape)
      \o Flatten([k \in 1..shape.n |-> RawFile(shape.flavour, k)])

ArchiveShapes == [flavour : Flavours, n : 0..MaxFiles]

ArchiveLists == UNION {[1..k -> ArchiveShapes] : k \in 0..MaxArchives}

Layouts == {"inorder", "reversed", "shared", "gap", "zero", "negative"}

RECURSIVE SumLens(_, _, _)
SumLens(seqs, from, to) ==
    IF from > to THEN 0 ELSE Len(seqs[from]) + SumLens(seqs, from + 1, to)

HeaderTableLen(list) ==
    SumLens([i \in 1..Len(list) |-> RawName(list[i].flavour)], 1, Len(list)) + 6 * Len(list)

VfsStream(versions, vfs_count, list, layout) ==
    LET bodies == [i \in 1..Len(list) |-> BodyBytes(list[i])]
        first  == 12 + HeaderTableLen(list) + (IF layout = "gap" THEN 3 ELSE 0)
        offset(i) ==
            CASE layout \in {"inorder", "gap"} -> first + SumLens(bodies, 1, i - 1)
              [] layout = "reversed" -> first + SumLens(bodies, i + 1, Len(list))
              [] layout = "shared"   -> first
              [] layout = "zero"     -> 0
              [] layout = "negative" -> -1
              [] layout = "self"     ->
                    12 + SumLens([k \in 1..Len(list) |-> RawName(list[k].flavour)], 1, i)
                       + 6 * (i - 1) + 2
              [] layout = "entry"    ->
                    12 + SumLens([k \in 1..Len(list) |-> RawName(list[k].flavour)], 1, i - 1)
                       + 6 * (i - 1)
        entries == [i \in 1..Len(list) |->
                      BytesOf16(Len(RawName(list[i].flavour)))
                        \o RawName(list[i].flavour) \o BytesOf32(offset(i))]
    IN  BytesOf32(versions[1]) \o BytesOf32(versions[2]) \o BytesOf32(vfs_count)
          \o Flatten(entries)
          \o (IF layout = "gap" THEN <<1, 2, 3>> ELSE <<>>)
          \o Flatten(IF layout = "reversed" THEN Reverse(bodies) ELSE bodies)

\* every layout, with the archive count of the header table
VfsLaidOut ==
    {VfsStream(<<129, 130>>, Len(list), list, layout) :
        list \in ArchiveLists, layout \in Layouts}

\* offsets 0 with a base version of 0, which then reads as a file count of 0
VfsZeroBase == {VfsStream(<<0, 5>>, Len(list), list, "zero") : list \in ArchiveLists}

\* a declared archive count other than the number of header entries
VfsMiscounted ==
    UNION {{VfsStream(<<129, 130>>, c, list, "inorder") : c \in {-1, Len(list) + 1}} :
              list \in ArchiveLists}

\* with the last byte missing
VfsTruncated ==
    {SubSeq(b, 1, Len(b) - 1) :
        b \in {VfsStream(<<129, 130>>, Len(list), list, "inorder") : list \in ArchiveLists}}

\* every prefix of an index of MaxArchives archives of MaxFiles files each
VfsPrefixes ==
    Prefixes(VfsStream(<<129, 130>>, MaxArchives,
                       [i \in 1..MaxArchives |->
                          [flavour |-> IF i % 2 = 1 THEN "plain" ELSE "flags", n |-> MaxFiles]],
                       "inorder"))

VfsStreams ==
    VfsLaidOut \cup VfsZeroBase \cup VfsMiscounted \cup VfsTruncated \cup VfsPrefixes

(***************************************************************************)
(* The index codec driven as tests::vfs_index_save drives it: load a       *)
(* stream into a fresh index, save the index to an empty cursor, rewind,   *)
(* load the written bytes into another fresh index.                        *)
(***************************************************************************)
VfsInit ==
    /\ pc = "start"
    /\ reader \in {Cursor(b, 0) : b \in VfsStreams}
    /\ cursor = Cursor(<<>>, 0)
    /\ orig_zms = ModelFileNew
    /\ new_zms = ModelFileNew
    /\ zres = [read |-> "none", write |-> "none", reread |-> "none"]
    /\ ztrace = [read |-> ReadTraceNew, reread |-> ReadTraceNew]
    /\ orig_idx = VfsIndexNew
    /\ new_idx = VfsIndexNew
    /\ ires = [load |-> "none", save |-> "none", reload |-> "none"]
    /\ itrace = [load |-> LoadTraceNew, save |-> SaveTraceNew, reload |-> LoadTraceNew]
    /\ LitIdle
    /\ prim = PrimNew

\* VfsIndex::from_file: new, then load_reader
VfsFromReader ==
    /\ pc = "start"
    /\ \E s \in {load_reader(VfsIndexNew, reader)} :
           /\ reader' = s.rd
           /\ orig_idx' = s.self
           /\ ires' = [ires EXCEPT !.load = s.err]
           /\ itrace' = [itrace EXCEPT !.load = s.tr]
    /\ pc' = "loaded"
    /\ UNCHANGED <<cursor, new_idx, zvars, prim, lvars>>

\* orig_idx.save_writer(&mut cursor)
VfsSaveWriter ==
    /\ pc = "loaded"
    /\ ires.load = "ok"
    /\ \E s \in {save_writer(orig_idx, cursor)} :
           /\ cursor' = s.w
           /\ orig_idx' = s.self
           /\ ires' = [ires EXCEPT !.save = s.err]
           /\ itrace' = [itrace EXCEPT !.save = s.tr]
    /\ pc' = "saved"
    /\ UNCHANGED <<reader, new_idx, zvars, prim, lvars>>

\* cursor.set_position(0); new_idx = VfsIndex::new(); new_idx.load_reader(&mut cursor)
VfsLoadBack ==
    /\ pc = "saved"
    /\ ires.save = "ok"
    /\ \E s \in {load_reader(VfsIndexNew, [cursor EXCEPT !.pos = 0])} :
           /\ cursor' = s.rd
           /\ new_idx' = s.self
           /\ ires' = [ires EXCEPT !.reload = s.err]
           /\ itrace' = [itrace EXCEPT !.reload = s.tr]
    /\ pc' = "reloaded"
    /\ UNCHANGED <<reader, orig_idx, zvars, prim, lvars>>

VfsNext == VfsFromReader \/ VfsSaveWriter \/ VfsLoadBack

SpecVfs == VfsInit /\ [][VfsNext]_vars

(***************************************************************************)
(* VfsIndex::load_reader taken one iteration of its archive loop at a      *)
(* time.  Between iterations the function's state is the stream, the index *)
(* being filled, the declared archive count and the iterations made so     *)
(* far (itrace.load); the loop variable i is the number of iterations      *)
(* made.  An Err returned by `?` ends the function at once.  The function  *)
(* has a step to make in every state but the last: the guards of          *)
(* LoadArchive and LoadEnd are each other's negation.                      *)
(***************************************************************************)
\* one or two archives without files
FilelessLists == {list \in ArchiveLists : Len(list) \in {1, 2} /\ \A i \in 1..Len(list) : list[i].n = 0}

\* offsets that point at their own field, and at their own header entry
VfsSelfPointing ==
    {VfsStream(<<129, 130>>, Len(list), list, layout) :
        list \in FilelessLists, layout \in {"self", "entry"}}

WalkInit ==
    /\ pc = "start"
    /\ reader \in {Cursor(b, 0) : b \in VfsStreams \cup VfsSelfPointing}
    /\ cursor = Cursor(<<>>, 0)
    /\ orig_zms = ModelFileNew
    /\ new_zms = ModelFileNew
    /\ zres = [read |-> "none", write |-> "none", reread |-> "none"]
    /\ ztrace = [read |-> ReadTraceNew, reread |-> ReadTraceNew]
    /\ orig_idx = VfsIndexNew
    /\ new_idx = VfsIndexNew
    /\ ires = [load |-> "none", save |-> "none", reload |-> "none"]
    /\ itrace = [load |-> LoadTraceNew, save |-> SaveTraceNew, reload |-> LoadTraceNew]
    /\ LitIdle
    /\ prim = PrimNew

\* the function's state between two steps
Loading == [LoadStart(orig_idx, reader) EXCEPT !.tr = itrace.load]

\* the step s of load_reader has been made
LoadStepped(s) ==
    /\ reader' = s.rd
    /\ orig_idx' = s.self
    /\ ires' = [ires EXCEPT !.load = s.err]
    /\ itrace' = [itrace EXCEPT !.load = s.tr]
    /\ pc' = (IF s.err = "ok" THEN "loading" ELSE "load_done")
    /\ UNCHANGED <<cursor, new_idx, zvars, prim, lvars>>

\* lines 172-175
LoadBegin ==
    /\ pc = "start"
    /\ \E s \in {ReadVersions(LoadStart(VfsIndexNew, reader))} : LoadStepped(s)

\* lines 177-206: the next iteration of the archive loop
LoadArchive ==
    /\ pc = "loading"
    /\ ~ArchiveLoopDone(Len(itrace.load.entries), itrace.load.vfs_count)
    /\ \E s \in {ReadArchive(Loading, Len(itrace.load.entries))} : LoadStepped(s)

\* line 208: Ok(())
LoadEnd ==
    /\ pc = "loading"
    /\ ArchiveLoopDone(Len(itrace.load.entries), itrace.load.vfs_count)
    /\ pc' = "load_done"
    /\ UNCHANGED <<reader, cursor, zvars, ivars, prim, lvars>>

WalkNext == LoadBegin \/ LoadArchive \/ LoadEnd

SpecWalk == WalkInit /\ [][WalkNext]_vars

(***************************************************************************)
(* VfsIndex::load_reader on a stream whose seeks fail: the streams of the  *)
(* index codec, each with one of its first seeks returning an Err.  An     *)
(* index of n archives makes 3n - 1 seeks.                                 *)
(***************************************************************************)
SeekFaults == 0..(3 * MaxArchives - 2)

\* idx.load_reader(&mut reader), the reader failing one seek
VfsFromFailingReader ==
    /\ pc = "start"
    /\ \E k \in SeekFaults :
         \E s \in {load_reader_seeks(VfsIndexNew, reader, k)} :
           /\ reader' = s.rd
           /\ orig_idx' = s.self
           /\ ires' = [ires EXCEPT !.load = s.err]
           /\ itrace' = [itrace EXCEPT !.load = s.tr]
           /\ prim' = [prim EXCEPT !.op = "load_reader", !.arg = k,
                                   !.ok = ~s.seek_failed]
    /\ pc' = "loaded_failing"
    /\ UNCHANGED <<cursor, new_idx, zvars, lvars>>

SeekNext == VfsFromFailingReader

SpecSeek == VfsInit /\ [][SeekNext]_vars

(***************************************************************************)
(* VfsIndex::load_reader on two streams that differ only in the            *)
(* deleted-count and start-offset fields of their archive bodies: the      *)
(* first stream in reader, the second in cursor.                           *)
(***************************************************************************)
OtherFields == {<<1, 0>>, <<-1, -12>>, <<70000, 4>>}

WithFields(list, fields) ==
    [i \in 1..Len(list) |->
        [flavour |-> list[i].flavour, n |-> list[i].n, fields |-> fields]]

\* the pairs of whole streams
TwinsLaidOut ==
    {<<VfsStream(<<129, 130>>, Len(list), list, layout),
       VfsStream(<<129, 130>>, Len(list), WithFields(list, fields), layout)>> :
        list \in ArchiveLists, layout \in Layouts, fields \in OtherFields}

\* every pair of prefixes of equal length of an index of MaxArchives archives
\* of MaxFiles files each
FullList ==
    [i \in 1..MaxArchives |->
        [flavour |-> IF i % 2 = 1 THEN "plain" ELSE "flags", n |-> MaxFiles]]

FullStream(list) == VfsStream(<<129, 130>>, MaxArchives, list, "inorder")

TwinsCut ==
    {<<SubSeq(FullStream(FullList), 1, n),
       SubSeq(FullStream(WithFields(FullList, fields)), 1, n)>> :
        n \in 0..Len(FullStream(FullList)), fields \in OtherFields}

TwinInit ==
    /\ pc = "start"
    /\ \E p \in TwinsLaidOut \cup TwinsCut :
           /\ reader = Cursor(p[1], 0)
           /\ cursor = Cursor(p[2], 0)
    /\ orig_zms = ModelFileNew
    /\ new_zms = ModelFileNew
    /\ zres = [read |-> "none", write |-> "none", reread |-> "none"]
    /\ ztrace = [read |-> ReadTraceNew, reread |-> ReadTraceNew]
    /\ orig_idx = VfsIndexNew
    /\ new_idx = VfsIndexNew
    /\ ires = [load |-> "none", save |-> "none", reload |-> "none"]
    /\ itrace = [load |-> LoadTraceNew, save |-> SaveTraceNew, reload |-> LoadTraceNew]
    /\ LitIdle
    /\ prim = PrimNew

\* orig_idx.load_reader(&mut reader)
VfsLoadFirst ==
    /\ pc = "start"
    /\ \E s \in {load_reader(VfsIndexNew, reader)} :
           /\ reader' = s.rd
           /\ orig_idx' = s.self
           /\ ires' = [ires EXCEPT !.load = s.err]
           /\ itrace' = [itrace EXCEPT !.load = s.tr]
    /\ pc' = "first_loaded"
    /\ UNCHANGED <<cursor, new_idx, zvars, prim, lvars>>

\* new_idx.load_reader(&mut cursor)
VfsLoadSecond ==
    /\ pc = "first_loaded"
    /\ \E s \in {load_reader(VfsIndexNew, cursor)} :
           /\ cursor' = s.rd
           /\ new_idx' = s.self
           /\ ires' = [ires EXCEPT !.reload = s.err]
           /\ itrace' = [itrace EXCEPT !.reload = s.tr]
    /\ pc' = "both_loaded"
    /\ UNCHANGED <<reader, orig_idx, zvars, prim, lvars>>

TwinNext == VfsLoadFirst \/ VfsLoadSecond

SpecTwin == TwinInit /\ [][TwinNext]_vars

(***************************************************************************)
(* The two decoders on every input stream: each of ModelFile::read and     *)
(* VfsIndex::load_reader is given the streams laid out for either codec.   *)
(***************************************************************************)
DecodeInit == ZmsInit \/ VfsInit

DecodeNext == ZmsFromReader \/ VfsFromReader

SpecDecode == DecodeInit /\ [][DecodeNext]_vars

(***************************************************************************)
(* The two encoders, each on every record that its decoder returns.        *)
(***************************************************************************)
EncodeNext == ZmsFromReader \/ ZmsWriteCursor \/ VfsFromReader \/ VfsSaveWriter

SpecEncode == DecodeInit /\ [][EncodeNext]_vars

(***************************************************************************)
(* A record decoded twice: after a first decode that returned Ok the       *)
(* stream is set back to its start and the same record is given to the     *)
(* decoder again, as a caller of RoseFile::read or load on a record in use *)
(* does.                                                                   *)
(***************************************************************************)
\* reader.set_position(0); orig_zms.read(&mut reader)
ZmsReadAgain ==
    /\ pc = "read"
    /\ zres.read = "ok"
    /\ \E s \in {ZmsRead(orig_zms, [reader EXCEPT !.pos = 0])} :
           /\ reader' = s.rd
           /\ orig_zms' = s.self
           /\ zres' = [zres EXCEPT !.reread = s.err]
           /\ ztrace' = [ztrace EXCEPT !.reread = s.tr]
    /\ pc' = "read_again"
    /\ UNCHANGED <<cursor, new_zms, ivars, prim, lvars>>

\* reader.set_position(0); orig_idx.load_reader(&mut reader)
VfsLoadAgain ==
    /\ pc = "loaded"
    /\ ires.load = "ok"
    /\ \E s \in {load_reader(orig_idx, [reader EXCEPT !.pos = 0])} :
           /\ reader' = s.rd
           /\ orig_idx' = s.self
           /\ ires' = [ires EXCEPT !.reload = s.err]
           /\ itrace' = [itrace EXCEPT !.reload = s.tr]
    /\ pc' = "loaded_again"
    /\ UNCHANGED <<cursor, new_idx, zvars, prim, lvars>>

AgainNext == ZmsFromReader \/ ZmsReadAgain \/ VfsFromReader \/ VfsLoadAgain

SpecAgain == DecodeInit /\ [][AgainNext]_vars

(***************************************************************************)
(* Properties of the index codec.                                          *)
(***************************************************************************)
\* the i32 stored at the 4 bytes that follow position p of a buffer
I32At(buf, p) == I32OfBytes(SubSeq(buf, p + 1, p + 4))

FileCounts(idx) == [i \in 1..Len(idx.file_systems) |-> Len(idx.file_systems[i].files)]

\* C4 as stated: for every index obtained by load_reader, save_writer succeeds
\* and load_reader on the written bytes gives an equal index.
C4_VfsRoundTrip ==
    /\ pc = "saved" => ires.save = "ok"
    /\ pc = "reloaded" => (ires.reload = "ok" /\ new_idx = orig_idx)

\* where the offset field of header entry i lies: after the three version
\* fields, the earlier entries and entry i's length-prefixed filename
PlaceholderPosition(idx, i) ==
    12 + SumLens([k \in 1..Len(idx.file_systems) |-> idx.file_systems[k].filename], 1, i)
       + 6 * (i - 1) + 2

\* C5: after a successful save the 32-bit field after archive i's filename
\* holds the position where archive i's body begins, never the reserved 0, and
\* load_reader on the output reads archive i's body from there to its end.
C5_OffsetBackpatch ==
    (pc \in {"saved", "reloaded"} /\ ires.save = "ok") =>
        /\ Len(itrace.save.file_system_offsets) = Len(orig_idx.file_systems)
        /\ Len(itrace.save.file_offsets) = Len(orig_idx.file_systems)
        /\ \A i \in 1..Len(orig_idx.file_systems) :
              /\ itrace.save.file_system_offsets[i] = PlaceholderPosition(orig_idx, i)
              /\ I32At(cursor.buf, PlaceholderPosition(orig_idx, i))
                   = itrace.save.file_offsets[i]
              /\ I32At(cursor.buf, PlaceholderPosition(orig_idx, i)) # 0
              /\ I32At(cursor.buf, itrace.save.file_offsets[i])
                   = Len(orig_idx.file_systems[i].files)
              /\ pc = "reloaded" =>
                   /\ ires.reload = "ok"
                   /\ itrace.reload.entries[i].offset = itrace.save.file_offsets[i]
                   /\ itrace.reload.entries[i].body_end = itrace.save.body_ends[i]
                   /\ Len(new_idx.file_systems[i].files)
                        = Len(orig_idx.file_systems[i].files)

C5_Witness ==
    /\ pc = "reloaded"
    /\ Len(orig_idx.file_systems) = 2
    /\ Len(orig_idx.file_systems[1].files) >= 1
    /\ Len(orig_idx.file_systems[2].files) >= 1
    /\ itrace.load.entries[1].offset # itrace.save.file_offsets[1]

\* C20: save_writer writes every archive's filename and zero placeholder
\* before the first byte of any body; it patches a placeholder with the
\* stream's position at that moment, and the body starts there next.
C20_TwoPhase ==
    (pc \in {"saved", "reloaded"} /\ ires.save \in {"ok", "panic"}) =>
        /\ \A k \in 1..Len(orig_idx.file_systems) :
              /\ itrace.save.events[k].kind = "placeholder"
              /\ itrace.save.events[k].i = k
              /\ itrace.save.events[k].value = 0
        /\ \A k \in (Len(orig_idx.file_systems) + 1)..Len(itrace.save.events) :
              itrace.save.events[k].kind \in {"patch", "body"}
        /\ \A k \in 1..Len(itrace.save.events) :
              itrace.save.events[k].kind = "patch" =>
                  /\ itrace.save.events[k].at
                       = itrace.save.events[itrace.save.events[k].i].at
                  /\ itrace.save.events[k].value = itrace.save.events[k].from
                  /\ itrace.save.events[k].from
                       >= itrace.save.events[Len(orig_idx.file_systems)].at + 4
                  /\ itrace.save.events[k + 1].kind = "body"
                  /\ itrace.save.events[k + 1].i = itrace.save.events[k].i
                  /\ itrace.save.events[k + 1].at = itrace.save.events[k].value

\* two archives with files saved: two placeholders, then patch and body twice
C20_Witness ==
    /\ pc = "saved"
    /\ ires.save = "ok"
    /\ Len(orig_idx.file_systems) = 2
    /\ Len(itrace.save.events) = 6
    /\ itrace.save.events[5].kind = "patch"
    /\ itrace.save.events[5].i = 2
    /\ itrace.save.events[6].at > itrace.save.events[4].at

\* where the header table of a saved index ends
HeaderTableEnd(idx) ==
    IF idx.file_systems = <<>> THEN 12
    ELSE PlaceholderPosition(idx, Len(idx.file_systems)) + 4

\* the 32-bit value that header entry i of the output holds
PatchedOffset(buf, idx, i) == I32At(buf, PlaceholderPosition(idx, i))

\* the 0-based positions of the header table that the placeholders take
PlaceholderBytes(idx) ==
    UNION {PlaceholderPosition(idx, i)..(PlaceholderPosition(idx, i) + 3) :
             i \in 1..Len(idx.file_systems)}

\* the stream as pass 1 of save_writer leaves it
HeaderAfterPass1(idx) ==
    WritePlaceholders(
        WriteVersions([w |-> Cursor(<<>>, 0), err |-> "ok", self |-> idx,
                       tr |-> SaveTraceNew]), 1).w.buf

\* C26: of the bodies that save_writer wrote, the first starts at the end of
\* the header table and each next one where the one before ended, so the
\* patched offsets increase strictly and no body overlaps the header table or
\* another body; apart from the placeholders the header table is as pass 1
\* wrote it.
C26_BodyLayout ==
    (pc \in {"saved", "reloaded"} /\ ires.save \in {"ok", "panic"}) =>
        /\ Len(cursor.buf) >= HeaderTableEnd(orig_idx)
        /\ \A i \in 1..Len(itrace.save.file_offsets) :
              /\ PatchedOffset(cursor.buf, orig_idx, i) = itrace.save.file_offsets[i]
              /\ PatchedOffset(cursor.buf, orig_idx, i) >= HeaderTableEnd(orig_idx)
              /\ i = 1 => PatchedOffset(cursor.buf, orig_idx, i) = HeaderTableEnd(orig_idx)
              /\ i > 1 =>
                    /\ PatchedOffset(cursor.buf, orig_idx, i) = itrace.save.body_ends[i - 1]
                    /\ PatchedOffset(cursor.buf, orig_idx, i)
                         > PatchedOffset(cursor.buf, orig_idx, i - 1)
              /\ i <= Len(itrace.save.body_ends) =>
                    itrace.save.body_ends[i] > itrace.save.file_offsets[i]
        /\ ires.save = "ok" =>
              /\ Len(itrace.save.file_offsets) = Len(orig_idx.file_systems)
              /\ Len(itrace.save.body_ends) = Len(orig_idx.file_systems)
              /\ Len(cursor.buf) = (IF orig_idx.file_systems = <<>>
                                     THEN 12
                                     ELSE itrace.save.body_ends[Len(orig_idx.file_systems)])
        /\ \A p \in 0..(HeaderTableEnd(orig_idx) - 1) :
              p \notin PlaceholderBytes(orig_idx) =>
                  cursor.buf[p + 1] = HeaderAfterPass1(orig_idx)[p + 1]

\* two archives with files saved, the second body right after the first
C26_Witness ==
    /\ pc = "saved"
    /\ ires.save = "ok"
    /\ Len(orig_idx.file_systems) = 2
    /\ orig_idx.file_systems[1].filename # <<>>
    /\ PatchedOffset(cursor.buf, orig_idx, 1) = HeaderTableEnd(orig_idx)
    /\ PatchedOffset(cursor.buf, orig_idx, 2) = itrace.save.body_ends[1]
    /\ PatchedOffset(cursor.buf, orig_idx, 2) > PatchedOffset(cursor.buf, orig_idx, 1)

\* the archive iterations made are no more than the declared archive count,
\* and the files of each archive are as many as its declared file count
IterationsBounded ==
    /\ Len(itrace.load.entries) <= NonNeg(itrace.load.vfs_count)
    /\ Len(orig_idx.file_systems) = Len(itrace.load.entries)
    /\ \A i \in 1..Len(itrace.load.entries) :
          Len(orig_idx.file_systems[i].files) = NonNeg(itrace.load.entries[i].file_count)

\* the steps end as the whole function does
SteppedAsWhole(s) ==
    /\ ires.load = s.err
    /\ orig_idx = s.self
    /\ reader = s.rd
    /\ itrace.load = s.tr

\* the archive count that the stream declares
DeclaredArchives(buf) == IF Len(buf) >= 12 THEN NonNeg(I32At(buf, 8)) ELSE 0

\* the steps that load_reader can still make: the reads of lines 172-175,
\* the iterations left of the archive loop, the return
LoadRank ==
    CASE pc = "start"     -> 2 + DeclaredArchives(reader.buf)
      [] pc = "loading"   -> 1 + NonNeg(itrace.load.vfs_count) - Len(itrace.load.entries)
      [] pc = "load_done" -> 0

\* a step is to be made until the function has returned
LoadSteps ==
    /\ LoadRank >= 0
    /\ pc \in {"start", "loading", "load_done"}
    /\ pc = "loading" => ires.load = "ok"

\* C27: on every stream load_reader ends, with Ok or with an Err, wherever
\* the body offsets point: each of its steps lowers the number of steps
\* left, which is never negative; at every moment the archive iterations made
\* are at most the declared archive count and the file iterations of an
\* archive at most its declared file count.
C27_Terminates ==
    /\ [](IterationsBounded /\ LoadSteps)
    /\ [](pc = "load_done" => SteppedAsWhole(load_reader(VfsIndexNew, Cursor(reader.buf, 0))))
    /\ [][LoadRank' < LoadRank]_vars

\* both archives read with Ok from offsets that point back to the start of
\* the stream
C27_Witness ==
    /\ pc = "load_done"
    /\ ires.load = "ok"
    /\ itrace.load.vfs_count = 2
    /\ Len(itrace.load.entries) = 2
    /\ itrace.load.entries[1].offset < itrace.load.entries[1].entry_start
    /\ itrace.load.entries[2].offset < itrace.load.entries[2].entry_start

\* an offset that points at its own field: the load ends with an Err in the
\* first iteration
C27_WitnessSelf ==
    /\ pc = "load_done"
    /\ ires.load = "io"
    /\ itrace.load.vfs_count = 2
    /\ itrace.load.entries = <<>>
    /\ Len(reader.buf) > 20
    /\ I32At(reader.buf, 14 + U16OfBytes(SubSeq(reader.buf, 13, 14)))
         = 14 + U16OfBytes(SubSeq(reader.buf, 13, 14))

\* the log of a load obeys the header walk of load_reader on the buffer buf
HeaderWalk(buf, tr, err, pos) ==
    LET es == tr.entries
    IN  /\ \A i \in 1..Len(es) :
              /\ es[i].entry_start = (IF i = 1 THEN 12 ELSE es[i - 1].next_filesystem)
              /\ es[i].next_filesystem
                   = es[i].entry_start + 2
                       + U16OfBytes(SubSeq(buf, es[i].entry_start + 1, es[i].entry_start + 2))
                       + 4
              /\ es[i].offset = I32At(buf, es[i].next_filesystem - 4)
              /\ es[i].restored_to = (IF i < tr.vfs_count THEN es[i].next_filesystem ELSE -1)
        /\ err = "ok" =>
              /\ Len(es) = NonNeg(tr.vfs_count)
              /\ Len(es) > 0 => pos = es[Len(es)].body_end

\* C6: every header entry but the first is read from the position captured
\* right after the previous entry's offset field, wherever the bodies lie;
\* after the last archive the stream stays at the end of its body.
C6_PositionRestore ==
    /\ pc # "start" => HeaderWalk(reader.buf, itrace.load, ires.load, reader.pos)
    /\ pc = "reloaded" => HeaderWalk(cursor.buf, itrace.reload, ires.reload, cursor.pos)

\* a body that lies before its header entry, and bodies in reverse order
C6_Witness ==
    /\ pc = "loaded"
    /\ ires.load = "ok"
    /\ Len(itrace.load.entries) = 2
    /\ itrace.load.entries[1].offset < itrace.load.entries[1].entry_start
    /\ itrace.load.entries[1].body_end < itrace.load.entries[2].entry_start

C6_WitnessReversed ==
    /\ pc = "loaded"
    /\ ires.load = "ok"
    /\ Len(itrace.load.entries) = 2
    /\ itrace.load.entries[1].offset > itrace.load.entries[2].offset
    /\ Len(orig_idx.file_systems[2].files) >= 1

\* C7 as stated: saving an index whose two archives hold 1 and 0 files
\* completes and writes 0 as the second archive's first-file-offset field.
C7_EmptyArchiveSave ==
    (pc = "saved" /\ FileCounts(orig_idx) = <<1, 0>>) =>
        /\ ires.save = "ok"
        /\ I32At(cursor.buf, itrace.save.file_offsets[2] + 8) = 0

RECURSIVE CountDeleted(_)
CountDeleted(files) ==
    IF files = <<>> THEN 0
    ELSE (IF Head(files).is_deleted THEN 1 ELSE 0) + CountDeleted(Tail(files))

\* C8: in every body save_writer writes, the file-count field is the length of
\* the archive's file list and the deleted-count field is the number of its
\* entries flagged deleted, whatever deleted count the index was decoded from.
C8_DeletedCount ==
    pc \in {"saved", "reloaded"} =>
        \A i \in 1..Len(itrace.save.file_offsets) :
            /\ I32At(cursor.buf, itrace.save.file_offsets[i])
                 = Len(orig_idx.file_systems[i].files)
            /\ I32At(cursor.buf, itrace.save.file_offsets[i] + 4)
                 = CountDeleted(orig_idx.file_systems[i].files)

C8_Witness ==
    /\ pc = "saved"
    /\ ires.save = "ok"
    /\ Len(orig_idx.file_systems) = 2
    /\ CountDeleted(orig_idx.file_systems[2].files) = 1
    /\ itrace.load.entries[2].delete_count = 7
    /\ CountDeleted(orig_idx.file_systems[1].files) = 0
    /\ Len(orig_idx.file_systems[1].files) >= 1

(***************************************************************************)
(* Input streams for Lightmap::load_reader.  The strings of a stream are   *)
(* of one flavour: a letter, a letter and a zero byte, a letter and two    *)
(* zero bytes, or a byte that is not valid UTF-8.                          *)
(***************************************************************************)
LitFlavours == {"plain", "nul", "nul2", "lossy"}

\* a u8-prefixed string of the flavour around the byte `letter`
RawString(flavour, letter) ==
    CASE flavour = "plain" -> <<1, letter>>
      [] flavour = "nul"   -> <<2, letter, 0>>
      [] flavour = "nul2"  -> <<3, letter, 0, 0>>
      [] flavour = "lossy" -> <<1, 200>>

PartItems(flavour) ==
    << <<"lit", RawString(flavour, 65)>>, <<"fill", 4>>,
       <<"lit", RawString(flavour, 66)>>, <<"fill", 16>> >>

ObjectItems(flavour, part_count) ==
    << <<"lit", BytesOf32(part_count)>>, <<"fill", 4>> >>
      \o Flatten([k \in 1..NonNeg(part_count) |-> PartItems(flavour)])

LitStream(flavour, object_count, part_count, file_count) ==
    Assemble(<< <<"lit", BytesOf32(object_count)>> >>
               \o Flatten([o \in 1..NonNeg(object_count) |->
                              ObjectItems(flavour, part_count)])
               \o << <<"lit", BytesOf32(file_count)>> >>
               \o [f \in 1..NonNeg(file_count) |-> <<"lit", RawString(flavour, 70)>>],
             <<>>)

LitWellFormed ==
    {LitStream(flavour, oc, pc_, fc) :
        flavour \in LitFlavours, oc \in (-1)..MaxObjects, pc_ \in (-1)..MaxParts,
        fc \in (-1)..MaxParts}

\* every prefix of the largest stream
LitPrefixes == Prefixes(LitStream("nul", MaxObjects, MaxParts, MaxParts))

LitStreams == LitWellFormed \cup LitPrefixes

(***************************************************************************)
(* The lightmap codec driven as tests::lightmap_save drives it: load a     *)
(* stream into a fresh lightmap, save it to a cursor, rewind, load the     *)
(* written bytes into another fresh lightmap.                              *)
(***************************************************************************)
LitInit ==
    /\ pc = "start"
    /\ reader \in {Cursor(b, 0) : b \in LitStreams}
    /\ cursor = Cursor(<<>>, 0)
    /\ orig_zms = ModelFileNew
    /\ new_zms = ModelFileNew
    /\ zres = [read |-> "none", write |-> "none", reread |-> "none"]
    /\ ztrace = [read |-> ReadTraceNew, reread |-> ReadTraceNew]
    /\ orig_idx = VfsIndexNew
    /\ new_idx = VfsIndexNew
    /\ ires = [load |-> "none", save |-> "none", reload |-> "none"]
    /\ itrace = [load |-> LoadTraceNew, save |-> SaveTraceNew, reload |-> LoadTraceNew]
    /\ LitIdle
    /\ prim = PrimNew

\* Lightmap::from_file: new, then load_reader
LitFromReader ==
    /\ pc = "start"
    /\ \E s \in {lit_load_reader(LightmapNew, reader)} :
           /\ reader' = s.rd
           /\ orig_lit' = s.self
           /\ lres' = [lres EXCEPT !.load = s.err]
    /\ pc' = "lit_loaded"
    /\ UNCHANGED <<cursor, new_lit, zvars, ivars, prim>>

\* orig_lit.save_writer(&mut cursor)
LitSaveWriter ==
    /\ pc = "lit_loaded"
    /\ lres.load = "ok"
    /\ \E s \in {lit_save_writer(orig_lit, cursor)} :
           /\ cursor' = s.w
           /\ orig_lit' = s.self
           /\ lres' = [lres EXCEPT !.save = s.err]
    /\ pc' = "lit_saved"
    /\ UNCHANGED <<reader, new_lit, zvars, ivars, prim>>

\* cursor.set_position(0); new_lit = Lightmap::new(); new_lit.load_reader(&mut cursor)
LitLoadBack ==
    /\ pc = "lit_saved"
    /\ lres.save = "ok"
    /\ \E s \in {lit_load_reader(LightmapNew, [cursor EXCEPT !.pos = 0])} :
           /\ cursor' = s.rd
           /\ new_lit' = s.self
           /\ lres' = [lres EXCEPT !.reload = s.err]
    /\ pc' = "lit_reloaded"
    /\ UNCHANGED <<reader, orig_lit, zvars, ivars, prim>>

LitNext == LitFromReader \/ LitSaveWriter \/ LitLoadBack

SpecLit == LitInit /\ [][LitNext]_vars

\* C24 as stated: a lightmap that load_reader returned, saved and loaded
\* again, has the same objects, parts and filenames.
C24_LightmapRoundTrip ==
    pc = "lit_reloaded" =>
        /\ lres.reload = "ok"
        /\ Len(new_lit.objects) = Len(orig_lit.objects)
        /\ new_lit.objects = orig_lit.objects
        /\ new_lit.filenames = orig_lit.filenames

(***************************************************************************)
(* The string readers of ReadRoseExt, each called once at the start of a   *)
(* stream.  The streams are all byte sequences up to MaxStream bytes over  *)
(* a zero byte, a small length, an ASCII letter and a byte that is not     *)
(* valid UTF-8.                                                            *)
(***************************************************************************)
StreamBytes == {0, 2, 65, 200}

PrimStreams == UNION {[1..n -> StreamBytes] : n \in 0..MaxStream}

PrimInit ==
    /\ pc = "start"
    /\ reader \in {Cursor(b, 0) : b \in PrimStreams}
    /\ cursor = Cursor(<<>>, 0)
    /\ orig_zms = ModelFileNew
    /\ new_zms = ModelFileNew
    /\ zres = [read |-> "none", write |-> "none", reread |-> "none"]
    /\ ztrace = [read |-> ReadTraceNew, reread |-> ReadTraceNew]
    /\ orig_idx = VfsIndexNew
    /\ new_idx = VfsIndexNew
    /\ ires = [load |-> "none", save |-> "none", reload |-> "none"]
    /\ itrace = [load |-> LoadTraceNew, save |-> SaveTraceNew, reload |-> LoadTraceNew]
    /\ LitIdle
    /\ prim = PrimNew

\* the call `reader.<op>()` whose result is r
Called(op, r) ==
    /\ pc = "start"
    /\ pc' = "called"
    /\ reader' = r.rd
    /\ prim' = [prim EXCEPT !.op = op, !.ok = r.ok, !.val = r.val]
    /\ UNCHANGED <<cursor, zvars, ivars, lvars>>

PrimReadCString == Called("read_cstring", read_cstring(reader))

PrimReadStringU8 == Called("read_string_u8", read_string_u8(reader))

PrimReadStringU16 == Called("read_string_u16", read_string_u16(reader))

PrimReadStringU32 == Called("read_string_u32", read_string_u32(reader))

PrimNext == PrimReadCString \/ PrimReadStringU8 \/ PrimReadStringU16 \/ PrimReadStringU32

SpecPrim == PrimInit /\ [][PrimNext]_vars

(***************************************************************************)
(* Properties of the string readers.                                       *)
(***************************************************************************)
\* the bytes of the length prefix of a string reader
PrefixWidth(op) ==
    CASE op = "read_string_u8" -> 1
      [] op = "read_string_u16" -> 2
      [] op = "read_string_u32" -> 4

\* the length stored in the prefix at the start of buf
PrefixValue(op, buf) ==
    CASE op = "read_string_u8" -> buf[1]
      [] op = "read_string_u16" -> U16OfBytes(buf)
      [] op = "read_string_u32" -> U32OfBytes(buf)

\* C13 as stated: after its length n the reader consumes exactly n bytes, and
\* with fewer than n bytes left it fails instead of returning a shorter string.
C13_LengthPrefixed ==
    (/\ pc = "called"
     /\ prim.op \in {"read_string_u8", "read_string_u16", "read_string_u32"}
     /\ Len(reader.buf) >= PrefixWidth(prim.op)) =>
        IF PrefixValue(prim.op, reader.buf) <= Len(reader.buf) - PrefixWidth(prim.op)
        THEN /\ prim.ok
             /\ reader.pos = PrefixWidth(prim.op) + PrefixValue(prim.op, reader.buf)
        ELSE ~prim.ok

\* C14 as stated: read_cstring consumes up to and including the first zero
\* byte and returns the decoded bytes before it; with no zero byte it fails.
C14_NullTerminated ==
    (pc = "called" /\ prim.op = "read_cstring") =>
        IF FirstZero(reader.buf) > 0
        THEN /\ prim.ok
             /\ reader.pos = FirstZero(reader.buf)
             /\ prim.val = from_utf8_lossy(SubSeq(reader.buf, 1, FirstZero(reader.buf) - 1))
        ELSE ~prim.ok

(***************************************************************************)
(* The length-prefixed string writers of WriteRoseExt, each followed by    *)
(* the reader of the same width on the bytes written.  The texts are       *)
(* &str values: every ASCII text up to MaxStream bytes over two letters    *)
(* and U+0000, and texts of one letter around 255 bytes long.              *)
(***************************************************************************)
TextBytes == {0, 65, 66}

ShortTexts == UNION {[1..n -> TextBytes] : n \in 0..MaxStream}

LongTexts == {[i \in 1..n |-> 65] : n \in 250..260}

StrInit ==
    /\ pc = "start"
    /\ reader = Cursor(<<>>, 0)
    /\ cursor = Cursor(<<>>, 0)
    /\ orig_zms = ModelFileNew
    /\ new_zms = ModelFileNew
    /\ zres = [read |-> "none", write |-> "none", reread |-> "none"]
    /\ ztrace = [read |-> ReadTraceNew, reread |-> ReadTraceNew]
    /\ orig_idx = VfsIndexNew
    /\ new_idx = VfsIndexNew
    /\ ires = [load |-> "none", save |-> "none", reload |-> "none"]
    /\ itrace = [load |-> LoadTraceNew, save |-> SaveTraceNew, reload |-> LoadTraceNew]
    /\ LitIdle
    /\ prim \in {[PrimNew EXCEPT !.input = s] : s \in ShortTexts \cup LongTexts}

\* the call `cursor.<op>(text)` whose result is w
Written(op, w) ==
    /\ pc = "start"
    /\ pc' = "str_written"
    /\ cursor' = w
    /\ prim' = [prim EXCEPT !.op = op]
    /\ UNCHANGED <<reader, zvars, ivars, lvars>>

StrWriteU8 == Written("read_string_u8", write_string_u8(cursor, prim.input))

StrWriteU16 == Written("read_string_u16", write_string_u16(cursor, prim.input))

StrWriteU32 == Written("read_string_u32", write_string_u32(cursor, prim.input))

\* the reader of the width written, on the bytes written
ReadStringOf(op, rd) ==
    CASE op = "read_string_u8" -> read_string_u8(rd)
      [] op = "read_string_u16" -> read_string_u16(rd)
      [] op = "read_string_u32" -> read_string_u32(rd)

\* cursor.set_position(0); cursor.<prim.op>()
StrReadBack ==
    /\ pc = "str_written"
    /\ pc' = "str_read"
    /\ \E r \in {ReadStringOf(prim.op, Cursor(cursor.buf, 0))} :
           /\ reader' = r.rd
           /\ prim' = [prim EXCEPT !.ok = r.ok, !.val = r.val]
    /\ UNCHANGED <<cursor, zvars, ivars, lvars>>

StrNext == StrWriteU8 \/ StrWriteU16 \/ StrWriteU32 \/ StrReadBack

SpecStr == StrInit /\ [][StrNext]_vars

\* the largest length a prefix of the reader's width holds
PrefixMax(op) ==
    CASE op = "read_string_u8" -> 255
      [] op = "read_string_u16" -> 65535
      [] op = "read_string_u32" -> 2147483647

\* C22 as stated: a text whose length fits the prefix is written as its
\* length and its bytes, and the reader of that width returns the text and
\* ends where the writer ended.
C22_StringRoundTrip ==
    (pc = "str_read" /\ Len(prim.input) <= PrefixMax(prim.op)) =>
        /\ Len(cursor.buf) = PrefixWidth(prim.op) + Len(prim.input)
        /\ PrefixValue(prim.op, cursor.buf) = Len(prim.input)
        /\ SubSeq(cursor.buf, PrefixWidth(prim.op) + 1, Len(cursor.buf)) = prim.input
        /\ prim.ok
        /\ reader.pos = Len(cursor.buf)
        /\ prim.val = prim.input

\* C29 as stated: the prefix a string writer writes is the number of text
\* bytes it writes after it, whatever the length of the text, and the reader
\* of that width ends at the end of the text.
C29_PrefixMatchesPayload ==
    /\ pc \in {"str_written", "str_read"} =>
          PrefixValue(prim.op, cursor.buf) = Len(cursor.buf) - PrefixWidth(prim.op)
    /\ pc = "str_read" => reader.pos = Len(cursor.buf)

(***************************************************************************)
(* The aggregate writers of WriteRoseExt, each followed by the reader of   *)
(* the same aggregate on the bytes written.  The components are four f32   *)
(* bit patterns (1.0, -2.0, a NaN, the smallest denormal) and four i16     *)
(* values.                                                                 *)
(***************************************************************************)
F32Values == {<<63, 128, 0, 0>>, <<192, 0, 0, 0>>, <<127, 192, 0, 1>>, <<0, 0, 0, 1>>}

I16Values == {0, -1, 258, -32768}

AggregatesF32 ==
    {[kind |-> "color4", val |-> c] : c \in [{"r", "g", "b", "a"} -> F32Values]}
      \cup {[kind |-> "vector2_f32", val |-> v] : v \in [{"x", "y"} -> F32Values]}
      \cup {[kind |-> "vector3_f32", val |-> v] : v \in [{"x", "y", "z"} -> F32Values]}
      \cup {[kind |-> "vector4_f32", val |-> v] : v \in [{"w", "x", "y", "z"} -> F32Values]}

AggregatesI16 ==
    {[kind |-> "vector3_i16", val |-> v] : v \in [{"x", "y", "z"} -> I16Values]}
      \cup {[kind |-> "vector4_i16", val |-> v] : v \in [{"w", "x", "y", "z"} -> I16Values]}

AggInit ==
    /\ pc = "start"
    /\ reader = Cursor(<<>>, 0)
    /\ cursor = Cursor(<<>>, 0)
    /\ orig_zms = ModelFileNew
    /\ new_zms = ModelFileNew
    /\ zres = [read |-> "none", write |-> "none", reread |-> "none"]
    /\ ztrace = [read |-> ReadTraceNew, reread |-> ReadTraceNew]
    /\ orig_idx = VfsIndexNew
    /\ new_idx = VfsIndexNew
    /\ ires = [load |-> "none", save |-> "none", reload |-> "none"]
    /\ itrace = [load |-> LoadTraceNew, save |-> SaveTraceNew, reload |-> LoadTraceNew]
    /\ LitIdle
    /\ \/ \E a \in AggregatesF32 : prim = [PrimNew EXCEPT !.op = a.kind, !.input = a.val]
       \/ \E a \in AggregatesI16 : prim = [PrimNew EXCEPT !.op = a.kind, !.input = a.val]

\* the call `cursor.write_<kind>(&input)` whose result is w
AggWritten(kind, w) ==
    /\ pc = "start"
    /\ prim.op = kind
    /\ pc' = "agg_written"
    /\ cursor' = w
    /\ UNCHANGED <<reader, zvars, ivars, prim, lvars>>

AggWriteColor4 ==
    /\ prim.op = "color4"
    /\ AggWritten("color4", write_color4(cursor, prim.input))

AggWriteVector2F32 ==
    /\ prim.op = "vector2_f32"
    /\ AggWritten("vector2_f32", write_vector2_f32(cursor, prim.input))

AggWriteVector3F32 ==
    /\ prim.op = "vector3_f32"
    /\ AggWritten("vector3_f32", write_vector3_f32(cursor, prim.input))

AggWriteVector3I16 ==
    /\ prim.op = "vector3_i16"
    /\ AggWritten("vector3_i16", write_vector3_i16(cursor, prim.input))

AggWriteVector4F32 ==
    /\ prim.op = "vector4_f32"
    /\ AggWritten("vector4_f32", write_vector4_f32(cursor, prim.input))

AggWriteVector4I16 ==
    /\ prim.op = "vector4_i16"
    /\ AggWritten("vector4_i16", write_vector4_i16(cursor, prim.input))

\* the reader of the aggregate written
ReadAggregate(kind, rd) ==
    CASE kind = "color4" -> read_color4(rd)
      [] kind = "vector2_f32" -> read_vector2_f32(rd)
      [] kind = "vector3_f32" -> read_vector3_f32(rd)
      [] kind = "vector3_i16" -> read_vector3_i16(rd)
      [] kind = "vector4_f32" -> read_vector4_f32(rd)
      [] kind = "vector4_i16" -> read_vector4_i16(rd)

\* cursor.set_position(0); cursor.read_<kind>()
AggReadBack ==
    /\ pc = "agg_written"
    /\ pc' = "agg_read"
    /\ \E r \in {ReadAggregate(prim.op, Cursor(cursor.buf, 0))} :
           /\ reader' = r.rd
           /\ prim' = [prim EXCEPT !.ok = r.ok, !.val = r.val]
    /\ UNCHANGED <<cursor, zvars, ivars, lvars>>

AggNext ==
    \/ AggWriteColor4 \/ AggWriteVector2F32 \/ AggWriteVector3F32
    \/ AggWriteVector3I16 \/ AggWriteVector4F32 \/ AggWriteVector4I16
    \/ AggReadBack

SpecAgg == AggInit /\ [][AggNext]_vars

\* the order of the components of an aggregate on the wire
ComponentOrder(kind) ==
    CASE kind = "color4" -> <<"r", "g", "b", "a">>
      [] kind = "vector2_f32" -> <<"x", "y">>
      [] kind \in {"vector3_f32", "vector3_i16"} -> <<"x", "y", "z">>
      [] kind \in {"vector4_f32", "vector4_i16"} -> <<"w", "x", "y", "z">>

\* the little-endian bytes of one component
ComponentBytes(kind, c) ==
    IF kind \in {"vector3_i16", "vector4_i16"} THEN BytesOf16(c) ELSE BytesOfF32(c)

\* C23: the writer puts the components of an aggregate in the order R,G,B,A
\* / W,X,Y,Z / X,Y,Z / X,Y, and the reader returns from those bytes the
\* same value in every field.
C23_ComponentOrder ==
    /\ pc \in {"agg_written", "agg_read"} =>
          cursor.buf = Flatten([i \in 1..Len(ComponentOrder(prim.op)) |->
                                  ComponentBytes(prim.op,
                                                 prim.input[ComponentOrder(prim.op)[i]])])
    /\ pc = "agg_read" =>
          /\ prim.ok
          /\ prim.val = prim.input
          /\ reader.pos = Len(cursor.buf)

\* a 4-vector of four different components written and read back
C23_Witness ==
    /\ pc = "agg_read"
    /\ prim.op = "vector4_f32"
    /\ Cardinality({prim.input[f] : f \in {"w", "x", "y", "z"}}) = 4
    /\ prim.val.w = <<127, 192, 0, 1>>

(***************************************************************************)
(* The count that ModelFile::write puts in front of a list, for lists of   *)
(* the lengths around the ends of the i16 and u16 ranges.  The write is    *)
(* `writer.write_i16(len as i16)?` on a Cursor, whose only Err is the      *)
(* stream's, and a Cursor<Vec<u8>> has none.                               *)
(***************************************************************************)
Lengths == (0 .. 8 * MaxStream) \cup (32750 .. 32790) \cup (65520 .. 65550)

LenInit ==
    /\ pc = "start"
    /\ reader = Cursor(<<>>, 0)
    /\ cursor = Cursor(<<>>, 0)
    /\ orig_zms = ModelFileNew
    /\ new_zms = ModelFileNew
    /\ zres = [read |-> "none", write |-> "none", reread |-> "none"]
    /\ ztrace = [read |-> ReadTraceNew, reread |-> ReadTraceNew]
    /\ orig_idx = VfsIndexNew
    /\ new_idx = VfsIndexNew
    /\ ires = [load |-> "none", save |-> "none", reload |-> "none"]
    /\ itrace = [load |-> LoadTraceNew, save |-> SaveTraceNew, reload |-> LoadTraceNew]
    /\ LitIdle
    /\ prim \in {[PrimNew EXCEPT !.arg = n] : n \in Lengths}

\* the count of a list of prim.arg elements, written to the empty cursor;
\* prim.val is the count a reader takes from the two bytes
ZmsWriteLen ==
    /\ pc = "start"
    /\ pc' = "len_written"
    /\ \E w \in {WriteLen(cursor, prim.arg)} :
           /\ cursor' = w
           /\ prim' = [prim EXCEPT !.op = "write_len", !.ok = TRUE,
                                   !.val = read_i16(Cursor(w.buf, 0)).val]
    /\ UNCHANGED <<reader, zvars, ivars, lvars>>

LenNext == ZmsWriteLen

SpecLen == LenInit /\ [][LenNext]_vars

\* C17 as stated: for a list of more than 32767 elements the write returns
\* an error, and no count is written.
C17_TooLargeRejected ==
    (pc = "len_written" /\ prim.arg > 32767) => (~prim.ok /\ cursor.buf = <<>>)

(***************************************************************************)
(* Failures of the decoders.                                               *)
(***************************************************************************)
\* C11 as stated: whatever the stream, ModelFile::read and
\* VfsIndex::load_reader end with Ok or with an Err, never with a panic.
C11_NoPanic ==
    /\ zres.read # "panic"
    /\ zres.reread # "panic"
    /\ ires.load # "panic"
    /\ ires.reload # "panic"

\* the bytes of all columns a read has consumed
RECURSIVE ConsumedFrom(_, _)
ConsumedFrom(tr, k) ==
    IF k > Len(Columns) THEN 0 ELSE tr.consumed[Columns[k]] + ConsumedFrom(tr, k + 1)

\* where the elements of each list begin, given that the read got that far
BonesStart(tr) == tr.id_end + 30

IndicesStart(tr) == tr.cols_start + ConsumedFrom(tr, 1) + 2

MaterialsStart(tr) == IndicesStart(tr) + 6 * NonNeg(tr.declared.indices) + 2

StripsStart(tr) == MaterialsStart(tr) + 2 * NonNeg(tr.declared.materials) + 2

\* a count of n elements of at least size bytes each, read with the stream
\* then at position start, asks for more bytes than buf has left
Overdeclared(buf, start, n, size) == n > 0 /\ size > 0 /\ n > (Len(buf) - start) \div size

\* a model decode of buf: every declared count it read that is overdeclared
\* made it fail with the stream error
ZmsTruncationIsIo(buf, tr, err, format) ==
    /\ Overdeclared(buf, BonesStart(tr), tr.declared.bones, 2) => err = "io"
    /\ Overdeclared(buf, tr.cols_start, tr.declared.vertices, VertexBytes(format))
          => err = "io"
    /\ Overdeclared(buf, IndicesStart(tr), tr.declared.indices, 6) => err = "io"
    /\ Overdeclared(buf, MaterialsStart(tr), tr.declared.materials, 2) => err = "io"
    /\ Overdeclared(buf, StripsStart(tr), tr.declared.strips, 2) => err = "io"

\* an index decode of buf: it ends with Ok or the stream error, and an Ok has
\* read no overdeclared count (a header entry takes 6 bytes or more, a file
\* record 25 or more, after the 12 bytes of the body's three counts)
VfsTruncationIsIo(buf, tr, err) ==
    /\ err \in {"ok", "io"}
    /\ Overdeclared(buf, 12, tr.vfs_count, 6) => err = "io"
    /\ err = "ok" =>
          \A i \in 1..Len(tr.entries) :
              ~Overdeclared(buf, AsU64(tr.entries[i].offset) + 12,
                            tr.entries[i].file_count, 25)

\* C12: a decode that reads a count declaring more elements than the stream
\* has bytes left for ends with the stream error of the short read, not Ok.
C12_TruncationIsIo ==
    /\ pc = "read" => ZmsTruncationIsIo(reader.buf, ztrace.read, zres.read, orig_zms.format)
    /\ pc = "loaded" => VfsTruncationIsIo(reader.buf, itrace.load, ires.load)

\* an index count that the stream ends in the middle of
C12_Witness ==
    /\ pc = "read"
    /\ zres.read = "io"
    /\ ztrace.read.declared.indices = 1
    /\ Len(reader.buf) - IndicesStart(ztrace.read) \in 1..5
    /\ Len(orig_zms.vertices) >= 1

\* a file count whose record the stream ends in the middle of
C12_WitnessFiles ==
    /\ pc = "loaded"
    /\ ires.load = "io"
    /\ Len(itrace.load.entries) = 1
    /\ Len(reader.buf) > itrace.load.entries[1].body_end + 20

\* C15 as stated: a record passed to ModelFile::read or to
\* VfsIndex::load_reader that fails is left as it was passed, holding no
\* field or element decoded before the failure.
C15_NoPartialRecord ==
    /\ (pc = "read" /\ zres.read # "ok") => orig_zms = ModelFileNew
    /\ (pc = "loaded" /\ ires.load # "ok") => orig_idx = VfsIndexNew

\* C16 as stated: a seek of load_reader that returns an Err makes the call
\* return the stream error.
C16_SeekErrorPropagated ==
    (pc = "loaded_failing" /\ ~prim.ok) => ires.load = "io"

(***************************************************************************)
(* Paths at the index boundary.                                            *)
(***************************************************************************)
\* the stored path of the first file record of the archive body at `body`:
\* three counts, then the path's u16 length and its bytes
FirstPath(buf, body) ==
    SubSeq(buf, body + 15, body + 14 + U16OfBytes(SubSeq(buf, body + 13, body + 14)))

\* where a stored path has the archive's separator, the backslash
Backslashes(path) == {i \in 1..Len(path) : path[i] = 92}

\* C18 as stated: the path bytes save_writer writes for a decoded index have
\* the archive's separator wherever the bytes it was decoded from have it.
C18_SeparatorsRestored ==
    (/\ pc = "saved"
     /\ ires.save = "ok"
     /\ Len(itrace.load.entries) >= 1
     /\ itrace.load.entries[1].file_count >= 1
     /\ itrace.load.entries[1].offset >= 0) =>
        Backslashes(FirstPath(cursor.buf, itrace.save.file_offsets[1]))
          = Backslashes(FirstPath(reader.buf, itrace.load.entries[1].offset))

(***************************************************************************)
(* The fields of an archive body that load_reader reads and drops.         *)
(***************************************************************************)
\* C21: two index streams that differ only in the deleted-count and
\* start-offset fields of archive bodies decode to the same outcome and to
\* equal indices, and an archive record holds neither field.
C21_BodyFieldsIgnored ==
    pc = "both_loaded" =>
        /\ ires.load = ires.reload
        /\ orig_idx = new_idx
        /\ reader.pos = cursor.pos
        /\ \A i \in 1..Len(orig_idx.file_systems) :
              DOMAIN orig_idx.file_systems[i] = {"filename", "files"}

\* two archives with files, decoded from bodies whose two fields differ
C21_Witness ==
    /\ pc = "both_loaded"
    /\ ires.load = "ok"
    /\ Len(orig_idx.file_systems) = 2
    /\ \A i \in 1..2 :
          /\ Len(orig_idx.file_systems[i].files) >= 1
          /\ itrace.load.entries[i].delete_count # itrace.reload.entries[i].delete_count
          /\ itrace.load.entries[i].start_offset # itrace.reload.entries[i].start_offset
    /\ itrace.reload.entries[1].start_offset < 0

(***************************************************************************)
(* A record that is decoded into a second time.                            *)
(***************************************************************************)
\* C28 as stated: a second decode of the same bytes into the same record
\* leaves it equal to the record decoded from these bytes into a fresh one.
C28_PriorContentsDropped ==
    /\ (pc = "read_again" /\ zres.reread = "ok") =>
          orig_zms = ZmsRead(ModelFileNew, Cursor(reader.buf, 0)).self
    /\ (pc = "loaded_again" /\ ires.reload = "ok") =>
          orig_idx = load_reader(VfsIndexNew, Cursor(reader.buf, 0)).self

\* what the second decode does keep to: the scalar fields are those of the
\* bytes, each sequence is that of the first decode followed by that of the
\* bytes once more
C28_SecondDecodeAppends ==
    /\ (pc = "read_again" /\ zres.reread = "ok") =>
          /\ orig_zms.identifier = ZmsRead(ModelFileNew, Cursor(reader.buf, 0)).self.identifier
          /\ orig_zms.bones
               = ZmsRead(ModelFileNew, Cursor(reader.buf, 0)).self.bones
                   \o ZmsRead(ModelFileNew, Cursor(reader.buf, 0)).self.bones
          /\ Len(orig_zms.vertices) = 2 * NonNeg(ztrace.reread.declared.vertices)
    /\ (pc = "loaded_again" /\ ires.reload = "ok") =>
          orig_idx.file_systems
            = load_reader(VfsIndexNew, Cursor(reader.buf, 0)).self.file_systems
                \o load_reader(VfsIndexNew, Cursor(reader.buf, 0)).self.file_systems

(***************************************************************************)
(* The record after it was encoded.                                        *)
(***************************************************************************)
\* C30: after write, and after save_writer whether it returned or panicked,
\* the record is the one that was decoded before, field by field; a record
\* read from a "ZMS0007" stream still says "ZMS0007" while the bytes written
\* begin with "ZMS0008".
C30_RecordUnchanged ==
    /\ pc = "written" =>
          /\ orig_zms = ZmsRead(ModelFileNew, Cursor(reader.buf, 0)).self
          /\ orig_zms.identifier = SubSeq(reader.buf, 1, 7)
          /\ SubSeq(cursor.buf, 1, 8) = ZMS0008 \o <<0>>
    /\ pc = "saved" =>
          orig_idx = load_reader(VfsIndexNew, Cursor(reader.buf, 0)).self

\* a model with a vertex read from a "ZMS0007" stream and written
C30_Witness ==
    /\ pc = "written"
    /\ zres.write = "ok"
    /\ orig_zms.identifier = ZMS0007
    /\ SubSeq(cursor.buf, 1, 7) = ZMS0008
    /\ orig_zms.vertices # <<>>
    /\ orig_zms.bones # <<>>

\* an index of two archives with files saved
C30_WitnessIndex ==
    /\ pc = "saved"
    /\ ires.save = "ok"
    /\ Len(orig_idx.file_systems) = 2
    /\ orig_idx.file_systems[2].files # <<>>
    /\ orig_idx.base_version # 0

====
